---- MODULE Spec2Model ----
(***************************************************************************)
(* A model of sqlectron-core: the server registry (servers.ts, servers.js, *)
(* config.ts, crypto.ts, validators/server.ts) and the query handles of    *)
(* the PostgreSQL, SQLite and SQL Server adapters.                         *)
(*                                                                         *)
(* The repository holds two generations of the registry: the older one     *)
(* (typescriptrewritesrc/servers.ts, here impl = "ts") and the newer one   *)
(* (src/servers.js, here impl = "js").  Both are modelled; impl is fixed   *)
(* by Init.                                                                *)
(***************************************************************************)
EXTENDS Integers, Sequences, FiniteSets, TLC

VARIABLES
  impl,          \* which generation of servers.* runs: "ts" or "js"
  cryptoSecret,  \* the vault key the application passes to every call
  file,          \* data.servers of sqlectron.json, as persisted
  hist,          \* the last calls of the registry API, newest last
  nops,          \* number of registry calls made so far
  settings,      \* the other keys of sqlectron.json, as persisted
  file0,         \* sqlectron.json as it was when the concurrent calls began
  tasks          \* the registry calls in flight, each at one of its awaits

regVars == <<impl, cryptoSecret, file, hist, nops>>

taskVars == <<settings, file0, tasks>>

VARIABLES
  pg,            \* the PostgreSQL query handles: the closure of query() and
                 \* the position of its execute() and cancel() calls
  conns,         \* the connections of the shared pool, one backend each
  signals,       \* what each pg_cancel_backend found running: <<issuer, victim>>
  sqlite,        \* the SQLite query handle
  mssql          \* the SQL Server query handle

queryVars == <<pg, conns, signals, sqlite, mssql>>

VARIABLES
  client,        \* the adapter executeQuery is called on
  batch,         \* the statements of queryText, in order
  dbRan,         \* how many statements handed to sqlite3 the database ran
  outcome        \* what executeQuery settled with

batchVars == <<client, batch, dbRan, outcome>>

VARIABLES
  plaintext,     \* the text handed to crypto.ts encrypt
  secret2,       \* the secret handed to crypto.ts decrypt
  crypted,       \* what encrypt(text, cryptoSecret) returned or threw
  dec            \* what decrypt(crypted, secret2) returned or threw

cryptoVars == <<plaintext, secret2, crypted, dec>>

VARIABLES
  form,          \* the descriptor handed to the validators
  addrError,     \* what serverAddressValidator returned for it
  verdict,       \* the errors validate found in it
  persisted      \* the descriptors add and update have written

validateVars == <<form, addrError, verdict, persisted>>

VARIABLES
  config,        \* the configuration file prepare finds
  prepared       \* what prepare wrote, or that it threw

prepareVars == <<config, prepared>>

VARIABLES
  cass,          \* the Cassandra adapter: a call of query and what came of it
  util,          \* a call of versionCompare or wrapIdentifier and its result
  session,       \* a session of createServer: its connections and tunnel
  tunnel         \* the SSH tunnel server: its sockets and events

moreVars == <<cass, util, session, tunnel>>

\* the variables of the calls other than these four
callVars0 == <<client, batch, dbRan, outcome, plaintext, secret2, crypted, dec,
              form, addrError, verdict, persisted, config, prepared>>

\* the variables of the calls modelled on their own
callVars == <<client, batch, dbRan, outcome, plaintext, secret2, crypted, dec,
             form, addrError, verdict, persisted, config, prepared,
             cass, util, session, tunnel>>

vars == <<impl, cryptoSecret, file, hist, nops, settings, file0, tasks,
          pg, conns, signals, sqlite, mssql,
          client, batch, dbRan, outcome, plaintext, secret2, crypted, dec,
          form, addrError, verdict, persisted, config, prepared,
          cass, util, session, tunnel>>

(***************************************************************************)
(* Bounds of the model.                                                    *)
(***************************************************************************)
MaxServers == 4   \* longest registry written
MaxLayers == 2    \* deepest nesting of encryptions of one secret
MaxOps == 2       \* registry calls per behaviour
MaxHist == 2      \* calls remembered in hist
NTasks == 2       \* registry calls started concurrently
NHandles == 2     \* PostgreSQL query handles on one pool
PoolSize == 2     \* connections of the pool
MaxCancels == 2   \* cancel() calls per handle
MaxAgain == 1     \* execute() calls on a handle after its first
MaxBatch == 3     \* statements of one queryText
MaxText == 3      \* characters of a plaintext
MaxConfig == 2    \* servers of a configuration file
MaxParts == 3     \* components of a version
MaxName == 4      \* characters of an identifier
MaxConns == 2     \* connections a session constructs
MaxTunnels == 2   \* tunnels a session starts
MaxEnds == 2      \* calls of end() on a session
NSockets == 2     \* inbound sockets of a tunnel

Impls == {"ts", "js"}
Keys == {"k1", "k2", ""}      \* "" is a missing crypto secret
Ids == {"i1", "i2", "i3"}     \* what uuid.v4() can return
IVs == {1, 2}                 \* what crypto.randomBytes can return

Min(S) == CHOOSE x \in S : \A y \in S : x <= y

(***************************************************************************)
(* Secrets.  A secret value is a plaintext (base) under a stack of         *)
(* encryption layers, outermost first.  A layer with iv = 0 is the legacy  *)
(* hex string of createCipher; a layer with iv > 0 is the object           *)
(* {ivText, encryptedText} of the newer crypto module.                     *)
(***************************************************************************)
NoSecret == [layers |-> <<>>, base |-> ""]
Plain(s) == [layers |-> <<>>, base |-> s]
Garbage == [layers |-> <<>>, base |-> "?"]
Truthy(v) == v # NoSecret
IsString(v) == v.layers = <<>> \/ Head(v.layers).iv = 0
StrictEq(a, b) == IsString(a) /\ IsString(b) /\ a = b

\* crypto.ts: encrypt throws without a secret
cryptoThrows(secret) == secret = ""

\* crypto.ts: aes-256-ctr keyed by the secret alone, hex output
encrypt(text, secret) ==
  [layers |-> <<[k |-> secret, iv |-> 0]>> \o text.layers, base |-> text.base]

\* crypto.ts: the stream cipher undone; any other input deciphers to garbage
decrypt(text, secret) ==
  IF text.layers # <<>> /\ Head(text.layers) = [k |-> secret, iv |-> 0]
    THEN [layers |-> Tail(text.layers), base |-> text.base]
    ELSE Garbage

\* the newer crypto module: a random iv, the result an object
encryptIv(text, secret, iv) ==
  [layers |-> <<[k |-> secret, iv |-> iv]>> \o text.layers, base |-> text.base]

\* the newer crypto module: decrypt of an {ivText, encryptedText} object
decryptIv(text, secret) ==
  IF text.layers # <<>> /\ Head(text.layers).k = secret /\ Head(text.layers).iv > 0
    THEN [layers |-> Tail(text.layers), base |-> text.base]
    ELSE Garbage

\* the newer crypto module: the legacy decrypt, kept for stored hex strings
unsafeDecrypt(text, secret) == decrypt(text, secret)

(***************************************************************************)
(* Server descriptors.                                                     *)
(***************************************************************************)
NoSsh == [present |-> FALSE, password |-> NoSecret]
Ssh(pw) == [present |-> TRUE, password |-> pw]

Server(id, name, password, ssh, encrypted) ==
  [id |-> id, name |-> name, password |-> password, ssh |-> ssh,
   encrypted |-> encrypted]

NoServer == Server("", "", NoSecret, NoSsh, "undefined")

Depth(server) ==
  IF Len(server.password.layers) >= Len(server.ssh.password.layers)
    THEN Len(server.password.layers) ELSE Len(server.ssh.password.layers)

\* Valida.Sanitizer.trim
trim(s) == IF s = " n" THEN "n" ELSE s

\* SERVER_SCHEMA: the sanitizers rewrite the fields of the validated object
sanitize(server) == [server EXCEPT !.name = trim(@)]

\* validate: name is required and of length >= 1 once trimmed
validateThrows(server) == trim(server.name) = ""

(***************************************************************************)
(* Array helpers, as Array.prototype.slice and findIndex compute them.     *)
(***************************************************************************)
Norm(n, len) == IF n < 0 THEN (IF len + n < 0 THEN 0 ELSE len + n)
                ELSE (IF n > len THEN len ELSE n)

slice(s, start, end) ==
  LET a == Norm(start, Len(s))
      b == Norm(end, Len(s))
  IN IF a >= b THEN <<>> ELSE SubSeq(s, a + 1, b)

sliceFrom(s, start) == slice(s, start, Len(s))

\* 0-based index of the first entry with that id, -1 when there is none
findIndex(servers, id) ==
  LET hits == {i \in 1..Len(servers) : servers[i].id = id}
  IN IF hits = {} THEN -1 ELSE Min(hits) - 1

\* validators/server.ts validateUniqueId: throws only when the entry found
\* by that id has another id
validateUniqueIdTs(servers, serverId) ==
  IF serverId = "" THEN FALSE
  ELSE LET index == findIndex(servers, serverId)
       IN IF index = -1 THEN FALSE
          ELSE IF serverId # "" /\ servers[index + 1].id = serverId THEN FALSE
          ELSE TRUE

\* the newer validateUniqueId: throws without an id; its boolean result is
\* dropped by add and update
validateUniqueIdJs(servers, serverId) == serverId = ""

validateUniqueIdThrows(i, servers, serverId) ==
  IF i = "ts" THEN validateUniqueIdTs(servers, serverId)
  ELSE validateUniqueIdJs(servers, serverId)

(***************************************************************************)
(* servers.ts / servers.js: secrets of a descriptor.                       *)
(* hasOld says whether an old server was passed (update) or not (add);     *)
(* update passes data.servers[index], which is undefined for index -1.     *)
(***************************************************************************)
passDiffTs(hasOld, now, old) == hasOld /\ now # old

\* servers.ts encryptSecrects: what makes it throw
encryptSecrectsTsThrows(server, secret, hasOld, oldSever) ==
  \/ /\ Truthy(server.password)
     /\ (~hasOld \/ passDiffTs(hasOld, server.password, oldSever.password))
     /\ cryptoThrows(secret)
  \/ /\ server.ssh.present /\ Truthy(server.ssh.password)
     /\ \/ hasOld /\ ~oldSever.ssh.present          \* oldSever.ssh.password of undefined
        \/ /\ (~hasOld \/ passDiffTs(hasOld, server.ssh.password, oldSever.ssh.password))
           /\ cryptoThrows(secret)

\* servers.ts encryptSecrects
encryptSecrectsTs(server, secret, hasOld, oldSever) ==
  LET password ==
        IF /\ Truthy(server.password)
           /\ (~hasOld \/ passDiffTs(hasOld, server.password, oldSever.password))
          THEN encrypt(server.password, secret)
          ELSE server.password
      sshPassword ==
        IF /\ server.ssh.present /\ Truthy(server.ssh.password)
           /\ (~hasOld \/ passDiffTs(hasOld, server.ssh.password, oldSever.ssh.password))
          THEN encrypt(server.ssh.password, secret)
          ELSE server.ssh.password
  IN [server EXCEPT !.password = password,
                    !.ssh.password = sshPassword,
                    !.encrypted = "true"]

\* servers.js encryptSecrects, lines 77 and 89: the old secret is a stored
\* legacy string of an encrypted server
oldIsLegacy(hasOld, oldServer, oldSecret) ==
  hasOld /\ Truthy(oldSecret) /\ IsString(oldSecret) /\ oldServer.encrypted = "true"

\* servers.js encryptSecrects, lines 76-86: the password branch
passwordBranchJs(server, secret, hasOld, oldServer, iv) ==
  LET decrypted ==
        IF /\ oldIsLegacy(hasOld, oldServer, oldServer.password)
           /\ StrictEq(server.password, oldServer.password)
          THEN unsafeDecrypt(oldServer.password, secret)
          ELSE server.password
  IN IF ~Truthy(server.password) THEN server.password
     ELSE IF IsString(decrypted) THEN encryptIv(decrypted, secret, iv)
     ELSE decrypted

\* servers.js encryptSecrects, lines 88-98: the ssh branch, which compares
\* and rewrites password, not ssh.password, and then encrypts ssh.password
sshBranchTouchesPassword(server, hasOld, oldServer) ==
  /\ server.ssh.present /\ Truthy(server.ssh.password)
  /\ hasOld /\ oldServer.ssh.present
  /\ oldIsLegacy(hasOld, oldServer, oldServer.ssh.password)
  /\ StrictEq(server.password, oldServer.password)

sshBranchJs(server, updatedServer, secret, hasOld, oldServer, iv) ==
  IF ~(server.ssh.present /\ Truthy(server.ssh.password)) THEN updatedServer
  ELSE [updatedServer EXCEPT
          !.password = IF sshBranchTouchesPassword(server, hasOld, oldServer)
                         THEN unsafeDecrypt(oldServer.password, secret)
                         ELSE @,
          !.ssh.password = IF IsString(@) THEN encryptIv(@, secret, iv) ELSE @]

encryptSecrectsJsThrows(server, secret, hasOld, oldServer) ==
  \/ /\ Truthy(server.password) /\ IsString(server.password)
     /\ cryptoThrows(secret)
  \/ /\ sshBranchTouchesPassword(server, hasOld, oldServer)
     /\ (cryptoThrows(secret) \/ ~Truthy(oldServer.password))   \* unsafeDecrypt(undefined)
  \/ /\ server.ssh.present /\ Truthy(server.ssh.password)
     /\ IsString(server.ssh.password) /\ cryptoThrows(secret)

\* servers.js encryptSecrects
encryptSecrectsJs(server, secret, hasOld, oldServer, iv1, iv2) ==
  LET afterPassword ==
        [server EXCEPT !.password = passwordBranchJs(server, secret, hasOld, oldServer, iv1)]
      afterSsh == sshBranchJs(server, afterPassword, secret, hasOld, oldServer, iv2)
  IN [afterSsh EXCEPT !.encrypted = "true"]

encryptSecrectsThrows(i, server, secret, hasOld, old) ==
  IF i = "ts" THEN encryptSecrectsTsThrows(server, secret, hasOld, old)
  ELSE encryptSecrectsJsThrows(server, secret, hasOld, old)

encryptSecrects(i, server, secret, hasOld, old, iv1, iv2) ==
  IF i = "ts" THEN encryptSecrectsTs(server, secret, hasOld, old)
  ELSE encryptSecrectsJs(server, secret, hasOld, old, iv1, iv2)

(***************************************************************************)
(* What a call returns: a value, undefined, or an exception.               *)
(***************************************************************************)
Value(v) == [kind |-> "value", val |-> v]
Undefined == [kind |-> "undefined", val |-> NoServer]
Throw == [kind |-> "throw", val |-> NoServer]

decryptNeedsSecret(server) ==
  Truthy(server.password) \/ (server.ssh.present /\ Truthy(server.ssh.password))

\* a decryptSecrects that leaves ssh.password encrypted
decryptSecrectsPasswordOnly(server, secret) ==
  IF server.encrypted # "true" THEN Undefined
  ELSE IF decryptNeedsSecret(server) /\ cryptoThrows(secret) THEN Throw
  ELSE Value([server EXCEPT
         !.password = IF Truthy(@) THEN decrypt(@, secret) ELSE @,
         !.encrypted = "false"])

\* servers.ts decryptSecrects
decryptSecrectsTs(server, secret) ==
  IF server.encrypted # "true" THEN Undefined
  ELSE IF decryptNeedsSecret(server) /\ cryptoThrows(secret) THEN Throw
  ELSE Value([server EXCEPT
         !.password = IF Truthy(@) THEN decrypt(@, secret) ELSE @,
         !.ssh.password = IF server.ssh.present /\ Truthy(@)
                            THEN decrypt(@, secret) ELSE @,
         !.encrypted = "false"])

\* servers.js decryptSecrects
decryptSecrectsJs(server, secret) ==
  IF server.encrypted # "true" THEN Value(server)
  ELSE IF decryptNeedsSecret(server) /\ cryptoThrows(secret) THEN Throw
  ELSE Value([server EXCEPT
         !.password = IF Truthy(@) /\ IsString(@) THEN unsafeDecrypt(@, secret)
                      ELSE IF Truthy(@) THEN decryptIv(@, secret) ELSE @,
         !.ssh.password = IF server.ssh.present /\ Truthy(@) /\ IsString(@)
                            THEN unsafeDecrypt(@, secret)
                          ELSE IF server.ssh.present /\ Truthy(@)
                            THEN decryptIv(@, secret) ELSE @,
         !.encrypted = "false"])

decryptSecrects(i, server, secret) ==
  IF i = "ts" THEN decryptSecrectsTs(server, secret)
  ELSE decryptSecrectsJs(server, secret)

(***************************************************************************)
(* The registry API on data.servers.  Each operator yields what the call   *)
(* writes (servers, unchanged when it throws) and what it returns.         *)
(***************************************************************************)
Result(throws, servers, ret) == [throws |-> throws, servers |-> servers, ret |-> ret]

\* servers.ts add; servers.js add has the same text
add(i, servers, server, secret, newId, iv1, iv2) ==
  LET srv == sanitize(server)
  IN IF validateThrows(server) THEN Result(TRUE, servers, Throw)
     ELSE IF validateUniqueIdThrows(i, servers, newId) THEN Result(TRUE, servers, Throw)
     ELSE IF encryptSecrectsThrows(i, srv, secret, FALSE, NoServer)
       THEN Result(TRUE, servers, Throw)
     ELSE LET stored == [encryptSecrects(i, srv, secret, FALSE, NoServer, iv1, iv2)
                           EXCEPT !.id = newId]
          IN Result(FALSE, Append(servers, stored), Value(stored))

\* servers.ts update; servers.js update has the same text
update(i, servers, server, secret, iv1, iv2) ==
  LET srv == sanitize(server)
      index == findIndex(servers, srv.id)
      hasOld == index # -1
      old == IF hasOld THEN servers[index + 1] ELSE NoServer
  IN IF validateThrows(server) THEN Result(TRUE, servers, Throw)
     ELSE IF validateUniqueIdThrows(i, servers, srv.id) THEN Result(TRUE, servers, Throw)
     ELSE IF encryptSecrectsThrows(i, srv, secret, hasOld, old)
       THEN Result(TRUE, servers, Throw)
     ELSE LET stored == encryptSecrects(i, srv, secret, hasOld, old, iv1, iv2)
          IN Result(FALSE,
                    slice(servers, 0, index) \o <<stored>> \o sliceFrom(servers, index + 1),
                    Value(server))

\* servers.ts addOrUpdate
addOrUpdate(i, servers, server, secret, newId, iv1, iv2) ==
  LET hasId == server.id # ""
  IN IF hasId THEN update(i, servers, server, secret, iv1, iv2)
     ELSE add(i, servers, server, secret, newId, iv1, iv2)

\* servers.ts removeById
removeById(servers, id) ==
  LET index == findIndex(servers, id)
  IN Result(FALSE, slice(servers, 0, index) \o sliceFrom(servers, index + 1), Undefined)

\* config.ts sanitizeServer
sanitizeServerThrows(server, secret) ==
  server.encrypted = "undefined" /\ decryptNeedsSecret(server) /\ cryptoThrows(secret)

sanitizeServer(server, secret, newId) ==
  LET withId == [server EXCEPT !.id = IF @ = "" THEN newId ELSE @]
  IN IF withId.encrypted # "undefined" THEN withId
     ELSE [withId EXCEPT
             !.encrypted = "true",
             !.password = IF Truthy(@) THEN encrypt(@, secret) ELSE @,
             !.ssh.password = IF server.ssh.present /\ Truthy(@)
                                THEN encrypt(@, secret) ELSE @]

\* config.ts prepare: read, sanitizeServers, write
prepare(servers, secret, newIds) ==
  IF \E j \in 1..Len(servers) : sanitizeServerThrows(servers[j], secret)
    THEN Result(TRUE, servers, Throw)
    ELSE Result(FALSE,
                [j \in 1..Len(servers) |-> sanitizeServer(servers[j], secret, newIds[j])],
                Undefined)

(***************************************************************************)
(* The calls an application makes, one after the other (each awaited).     *)
(***************************************************************************)
Call(op, arg, before, ret, passed) ==
  [op |-> op, arg |-> arg, before |-> before, ret |-> ret, passed |-> passed]

\* { ...server } copies the top-level fields only: the ssh of the copy is the
\* ssh object of the original, and a write to copy.ssh.password is a write
\* to the original's
shares(server, copy) == [server EXCEPT !.ssh = copy.ssh]

\* the object passed to a call as the caller holds it after the call: add
\* and decryptSecrects return the copy whose ssh they wrote, update stores it
passedAfter(op, arg, before, r) ==
  LET isAdd == op = "add" \/ (op = "addOrUpdate" /\ arg.id = "")
      isUpdate == op = "update" \/ (op = "addOrUpdate" /\ arg.id # "")
      index == findIndex(before, arg.id)
  IN IF r.throws \/ r.ret.kind = "throw" THEN arg
     ELSE IF isAdd THEN shares(arg, r.ret.val)
     ELSE IF isUpdate THEN shares(arg, r.servers[Len(slice(before, 0, index)) + 1])
     ELSE IF op = "decryptSecrects" /\ r.ret.kind = "value" THEN shares(arg, r.ret.val)
     ELSE arg

Push(h, rec) == IF Len(h) < MaxHist THEN Append(h, rec) ELSE Append(Tail(h), rec)

Fits(servers) ==
  /\ Len(servers) <= MaxServers
  /\ \A j \in 1..Len(servers) : Depth(servers[j]) <= MaxLayers

Commit(op, arg, r) ==
  /\ nops < MaxOps
  /\ Fits(r.servers)
  /\ file' = r.servers
  /\ hist' = Push(hist, Call(op, arg, file, r.ret, passedAfter(op, arg, file, r)))
  /\ nops' = nops + 1
  /\ UNCHANGED <<impl, cryptoSecret>>
  /\ UNCHANGED taskVars
  /\ UNCHANGED queryVars
  /\ UNCHANGED callVars

StoredWith(servers, id) == {j \in 1..Len(servers) : servers[j].id = id}

\* descriptors a caller submits for a new server
NewServers ==
  {Server("", n, pw, ssh, "undefined") :
     n \in {"n", " n", ""}, pw \in {NoSecret, Plain("p")},
     ssh \in {NoSsh, Ssh(Plain("s"))}}

\* descriptors a caller submits for an edited server: the stored secrets of
\* that id as read by getAll, or new ones
EditedServers(servers) ==
  UNION {
    {Server(id, "n", pw, ssh, "true") :
       pw \in {Plain("q")} \cup {servers[j].password : j \in StoredWith(servers, id)},
       ssh \in {NoSsh, Ssh(Plain("s"))} \cup {servers[j].ssh : j \in StoredWith(servers, id)}}
    : id \in Ids}

Add ==
  \E server \in NewServers, newId \in Ids, iv1 \in IVs, iv2 \in IVs :
    Commit("add", server, add(impl, file, server, cryptoSecret, newId, iv1, iv2))

Update ==
  \E server \in EditedServers(file), iv1 \in IVs, iv2 \in IVs :
    Commit("update", server, update(impl, file, server, cryptoSecret, iv1, iv2))

AddOrUpdate ==
  \E server \in NewServers \cup EditedServers(file), newId \in Ids, iv1 \in IVs, iv2 \in IVs :
    Commit("addOrUpdate", server,
           addOrUpdate(impl, file, server, cryptoSecret, newId, iv1, iv2))

RemoveById ==
  \E id \in Ids :
    Commit("removeById", [NoServer EXCEPT !.id = id], removeById(file, id))

Prepare ==
  \E newIds \in [1..Len(file) -> Ids] :
    Commit("prepare", NoServer, prepare(file, cryptoSecret, newIds))

\* decryptSecrects on what the last call returned or on a stored server
DecryptSecrects ==
  \E server \in {file[j] : j \in 1..Len(file)}
               \cup {hist[j].ret.val : j \in {k \in {Len(hist)} : k > 0 /\ hist[k].ret.kind = "value"}} :
    Commit("decryptSecrects", server,
           Result(FALSE, file, decryptSecrects(impl, server, cryptoSecret)))

(***************************************************************************)
(* Registry calls started concurrently in one process.  Each call runs up  *)
(* to an await, and the file is read and written at the awaits of          *)
(* config.get (readJSONFile) and config.save (writeJSONFile).              *)
(***************************************************************************)
Tasks == 1..NTasks

IdleTask ==
  [pc |-> "idle", op |-> "", arg |-> NoServer, newId |-> "", iv |-> 0, setting |-> 0,
   data |-> <<>>, dataSettings |-> 0, ret |-> Undefined]

TasksIdle ==
  /\ settings = 0
  /\ file0 = <<>>
  /\ tasks = [t \in Tasks |-> IdleTask]

\* what a call computes from the data it read; saveSettings spreads the
\* data read under the new settings
applyCall(i, secret, task, servers) ==
  IF task.op = "add"
    THEN add(i, servers, task.arg, secret, task.newId, task.iv, task.iv)
  ELSE IF task.op = "update"
    THEN update(i, servers, task.arg, secret, task.iv, task.iv)
  ELSE IF task.op = "removeById"
    THEN removeById(servers, task.arg.id)
  ELSE Result(FALSE, servers, Undefined)

\* servers.ts add / update / removeById, config.ts saveSettings: the call,
\* up to its await of config.get (add and update validate first)
Begin(t, op, arg, newId, iv, setting) ==
  /\ tasks[t].pc = "idle"
  /\ tasks' = [tasks EXCEPT ![t] =
       IF op \in {"add", "update"} /\ validateThrows(arg)
         THEN [IdleTask EXCEPT !.pc = "done", !.op = op, !.arg = arg, !.ret = Throw]
         ELSE [IdleTask EXCEPT !.pc = "get", !.op = op, !.arg = arg, !.newId = newId,
                               !.iv = iv, !.setting = setting]]
  /\ UNCHANGED <<regVars, settings, file0>>
  /\ UNCHANGED queryVars
  /\ UNCHANGED callVars

\* ids already in the file or drawn by another call in flight
IdsInUse ==
  {file[j].id : j \in 1..Len(file)} \cup {tasks[u].newId : u \in Tasks}

\* the uuid.v4 ids of calls in flight are taken distinct and fresh, so that
\* what the calls leave is the effect of their interleaving alone
CallAdd(t) ==
  \E server \in {d \in NewServers : d.name = "n"}, newId \in Ids \ IdsInUse,
     iv \in IVs :
    Begin(t, "add", server, newId, iv, 0)

CallUpdate(t) ==
  \E server \in EditedServers(file), iv \in IVs :
    Begin(t, "update", server, "", iv, 0)

CallRemoveById(t) ==
  \E id \in Ids : Begin(t, "removeById", [NoServer EXCEPT !.id = id], "", 0, 0)

CallSaveSettings(t) ==
  \E setting \in {1, 2} : Begin(t, "saveSettings", NoServer, "", 0, setting)

\* config.ts get resolves: the call goes on with what the file holds now,
\* up to its await of the write
ReadJSONFile(t) ==
  /\ tasks[t].pc = "get"
  /\ LET r == applyCall(impl, cryptoSecret, tasks[t], file)
     IN /\ Fits(r.servers)
        /\ tasks' = [tasks EXCEPT ![t] =
             IF r.throws THEN [@ EXCEPT !.pc = "done", !.ret = Throw]
             ELSE [@ EXCEPT !.pc = "save", !.data = r.servers, !.ret = r.ret,
                            !.dataSettings = IF tasks[t].op = "saveSettings"
                                               THEN tasks[t].setting
                                               ELSE settings]]
  /\ UNCHANGED <<regVars, settings, file0>>
  /\ UNCHANGED queryVars
  /\ UNCHANGED callVars

\* config.ts save / saveSettings: writeJSONFile replaces the file
WriteJSONFile(t) ==
  /\ tasks[t].pc = "save"
  /\ file' = tasks[t].data
  /\ settings' = tasks[t].dataSettings
  /\ tasks' = [tasks EXCEPT ![t].pc = "done"]
  /\ UNCHANGED <<impl, cryptoSecret, hist, nops, file0>>
  /\ UNCHANGED queryVars
  /\ UNCHANGED callVars

\* the calls made one after the other, each awaited, in the given order
RECURSIVE Serial(_, _)
Serial(order, disk) ==
  IF order = <<>> THEN disk
  ELSE LET task == tasks[Head(order)]
           r == applyCall(impl, cryptoSecret, task, disk.servers)
           ran == IF task.op \in {"add", "update"} /\ validateThrows(task.arg)
                    THEN disk
                  ELSE [servers |-> r.servers,
                        settings |-> IF task.op = "saveSettings"
                                       THEN task.setting ELSE disk.settings]
       IN Serial(Tail(order), ran)

Orders == {o \in [Tasks -> Tasks] : \A a, b \in Tasks : a # b => o[a] # o[b]}

SerialOutcomes ==
  {Serial([j \in Tasks |-> o[j]], [servers |-> file0, settings |-> 0]) : o \in Orders}

AllDone == \A t \in Tasks : tasks[t].pc = "done"

(***************************************************************************)
(* Query handles.  query(conn, queryText) returns a handle whose execute() *)
(* and cancel() share the closure's variables; both suspend at every       *)
(* round trip to the driver.  The PostgreSQL handles share one pool: a     *)
(* connection is one backend, and its pid names it.                        *)
(***************************************************************************)
Handles == 1..NHandles

Pids == 1..PoolSize

NoOwner == [h |-> 0, role |-> ""]

NoResp == [h |-> 0, kind |-> ""]

\* pgErrors.CANCELED
pgCanceled == "57014"

CANCELED_BY_USER == "CANCELED_BY_USER"

\* owner: who checked the connection out of the pool; job: the handle whose
\* query text the backend is running (0: none); resp: the backend's answer
\* to it, on its way to the client
IdleConn == [owner |-> NoOwner, job |-> 0, resp |-> NoResp]

NewPgHandle ==
  [pc |-> "new", conn |-> 0, pid |-> 0, canceling |-> FALSE, canceled |-> FALSE,
   discarded |-> FALSE, outcome |-> "", again |-> 0,
   cpc |-> "idle", cconn |-> 0, cpid |-> 0, cres |-> "", cret |-> "",
   ncancel |-> 0, okPending |-> FALSE]

NewHandle ==
  [pc |-> "new", target |-> FALSE, canceled |-> FALSE, driverCancels |-> 0,
   outcome |-> "", cret |-> "", ncancel |-> 0]

QueryIdle ==
  /\ pg = [h \in Handles |-> NewPgHandle]
  /\ conns = [c \in Pids |-> IdleConn]
  /\ signals = {}
  /\ sqlite = NewHandle
  /\ mssql = NewHandle

\* a connection the pool can hand out, with nothing queued on it
Free(c) == conns[c] = IdleConn

\* connection.release()
release(cs, c) == [cs EXCEPT ![c].owner = NoOwner]

\* postgresql.js execute(): runWithConnection awaits pool.connect()
PgExecute(h) ==
  /\ pg[h].pc = "new"
  /\ pg' = [pg EXCEPT ![h].pc = "connect"]
  /\ UNCHANGED <<conns, signals, sqlite, mssql, regVars, taskVars, callVars>>

\* pool.connect() resolves; SELECT pg_backend_pid() is sent on the connection
PgPoolConnect(h) ==
  /\ pg[h].pc = "connect"
  /\ \E c \in Pids :
       /\ Free(c)
       /\ conns' = [conns EXCEPT ![c].owner = [h |-> h, role |-> "execute"]]
       /\ pg' = [pg EXCEPT ![h].pc = "pidq", ![h].conn = c]
  /\ UNCHANGED <<signals, sqlite, mssql, regVars, taskVars, callVars>>

\* the pid arrives: pid = dataPid.rows[0].pid, and the query text is sent
PgPidResult(h) ==
  /\ pg[h].pc = "pidq"
  /\ ~pg[h].discarded
  /\ pg' = [pg EXCEPT ![h].pc = "run", ![h].pid = pg[h].conn]
  /\ conns' = [conns EXCEPT ![pg[h].conn].job = h]
  /\ UNCHANGED <<signals, sqlite, mssql, regVars, taskVars, callVars>>

\* the backend ends the query by itself, with rows or with an SQL error
PgBackendFinish(c) ==
  /\ conns[c].job # 0
  /\ \E kind \in {"data", "error"} :
       conns' = [conns EXCEPT ![c].job = 0,
                              ![c].resp = [h |-> conns[c].job, kind |-> kind]]
  /\ UNCHANGED <<pg, signals, sqlite, mssql, regVars, taskVars, callVars>>

\* executeQuery settles first in the race: the try / catch / finally of
\* execute() and the release of runWithConnection
PgQueryResult(h) ==
  /\ pg[h].pc = "run"
  /\ conns[pg[h].conn].resp.h = h
  /\ LET kind == conns[pg[h].conn].resp.kind
         tagged == pg[h].canceling /\ kind = pgCanceled
     IN pg' = [pg EXCEPT
          ![h].pc = "settled",
          ![h].pid = IF kind = "data" THEN 0 ELSE @,
          ![h].canceling = IF tagged THEN FALSE ELSE @,
          ![h].outcome = IF tagged THEN CANCELED_BY_USER ELSE kind,
          ![h].discarded = TRUE]
  /\ conns' = [release(conns, pg[h].conn) EXCEPT ![pg[h].conn].resp = NoResp]
  /\ UNCHANGED <<signals, sqlite, mssql, regVars, taskVars, callVars>>

\* cancelable.wait() wakes up canceled and settles first in the race; its
\* error carries sqlectronError and no pg error code
PgCancelableWait(h) ==
  /\ pg[h].pc = "run"
  /\ pg[h].canceled /\ ~pg[h].discarded
  /\ pg' = [pg EXCEPT ![h].pc = "settled", ![h].outcome = CANCELED_BY_USER,
                      ![h].discarded = TRUE]
  /\ conns' = release(conns, pg[h].conn)
  /\ UNCHANGED <<signals, sqlite, mssql, regVars, taskVars, callVars>>

\* execute() is called again on a handle whose execute() has settled: the
\* closure's pid, canceling and cancelable are those of the first call
PgExecuteAgain(h) ==
  /\ pg[h].pc = "settled"
  /\ pg[h].again < MaxAgain
  /\ pg' = [pg EXCEPT ![h].pc = "connect", ![h].outcome = "", ![h].again = @ + 1]
  /\ UNCHANGED <<conns, signals, sqlite, mssql, regVars, taskVars, callVars>>

\* the pid arrives in a later execute(): the query text is sent, and
\* cancelable.wait(), discarded by the finally of the first call, does not
\* loop: it throws when canceled and returns undefined otherwise, and so
\* settles the race before the backend answers; the connection is released
PgPidResultAgain(h) ==
  /\ pg[h].pc = "pidq"
  /\ pg[h].discarded
  /\ pg' = [pg EXCEPT
       ![h].pc = "settled",
       ![h].pid = IF pg[h].canceled THEN pg[h].conn ELSE 0,
       ![h].outcome = IF pg[h].canceled THEN CANCELED_BY_USER ELSE "undefined"]
  /\ conns' = [release(conns, pg[h].conn) EXCEPT ![pg[h].conn].job = h]
  /\ UNCHANGED <<signals, sqlite, mssql, regVars, taskVars, callVars>>

\* the answer to a query whose execute() settled already: the callback of
\* driverExecuteQuery settles a promise that lost the race
PgLateResult(c) ==
  /\ conns[c].resp # NoResp
  /\ pg[conns[c].resp.h].pc # "run"
  /\ conns' = [conns EXCEPT ![c].resp = NoResp]
  /\ UNCHANGED <<pg, signals, sqlite, mssql, regVars, taskVars, callVars>>

\* a cancel() that raises canceling before it looks at pid
PgCancelEager(h) ==
  /\ pg[h].cpc = "idle"
  /\ pg[h].ncancel < MaxCancels
  /\ pg' = [pg EXCEPT ![h] =
       IF pg[h].pid = 0
         THEN [@ EXCEPT !.ncancel = @ + 1, !.cret = "Query not ready to be canceled",
                        !.canceling = TRUE]
         ELSE [@ EXCEPT !.ncancel = @ + 1, !.cret = "", !.canceling = TRUE,
                        !.cpid = pg[h].pid, !.cpc = "connect"]]
  /\ UNCHANGED <<conns, signals, sqlite, mssql, regVars, taskVars, callVars>>

\* postgresql.js cancel(), up to its await of the pool
PgCancel(h) ==
  /\ pg[h].cpc = "idle"
  /\ pg[h].ncancel < MaxCancels
  /\ pg' = [pg EXCEPT ![h] =
       IF pg[h].pid = 0
         THEN [@ EXCEPT !.ncancel = @ + 1, !.cret = "Query not ready to be canceled"]
         ELSE [@ EXCEPT !.ncancel = @ + 1, !.cret = "", !.canceling = TRUE,
                        !.cpid = pg[h].pid, !.cpc = "connect"]]
  /\ UNCHANGED <<conns, signals, sqlite, mssql, regVars, taskVars, callVars>>

\* driverExecuteQuery(conn, ...) of cancel(): a connection of the pool is
\* checked out and SELECT pg_cancel_backend(pid) is sent on it
PgCancelConnect(h) ==
  /\ pg[h].cpc = "connect"
  /\ \E c \in Pids :
       /\ Free(c)
       /\ conns' = [conns EXCEPT ![c].owner = [h |-> h, role |-> "cancel"]]
       /\ pg' = [pg EXCEPT ![h].cpc = "sent", ![h].cconn = c]
  /\ UNCHANGED <<signals, sqlite, mssql, regVars, taskVars, callVars>>

\* the server runs pg_cancel_backend(pid): the signal goes to the backend
\* with that pid, whatever it is running; sent to the backend that runs
\* the statement itself, it ends the statement
PgCancelBackend(h) ==
  /\ pg[h].cpc = "sent"
  /\ LET p == pg[h].cpid
         victim == conns[p].job
     IN IF p = pg[h].cconn
          THEN /\ pg' = [pg EXCEPT ![h].cpc = "answered", ![h].cres = "error"]
               /\ UNCHANGED <<conns, signals>>
          ELSE /\ pg' = [pg EXCEPT ![h].cpc = "answered", ![h].cres = "true"]
               /\ signals' = signals \cup {<<h, victim>>}
               /\ conns' = IF victim = 0 THEN conns
                           ELSE [conns EXCEPT ![p].job = 0,
                                   ![p].resp = [h |-> victim, kind |-> pgCanceled]]
  /\ UNCHANGED <<sqlite, mssql, regVars, taskVars, callVars>>

\* the answer of pg_cancel_backend arrives: the rest of cancel()
PgCancelResult(h) ==
  /\ pg[h].cpc = "answered"
  /\ pg' = [pg EXCEPT ![h] =
       IF pg[h].cres = "true"
         THEN [@ EXCEPT !.cpc = "idle", !.canceled = TRUE, !.cret = "ok",
                        !.okPending = @ \/ pg[h].pc = "run"]
         ELSE [@ EXCEPT !.cpc = "idle", !.canceling = FALSE, !.cret = "failed"]]
  /\ conns' = release(conns, pg[h].cconn)
  /\ UNCHANGED <<signals, sqlite, mssql, regVars, taskVars, callVars>>

\* sqliteErrors.CANCELED (SQLITE_INTERRUPT) and mmsqlErrors.CANCELED
\* (ECANCEL): the code the driver fails an interrupted query with
driverCanceled == "canceled by driver"

\* how a query the driver runs ends: an interrupt that reached it may still
\* come too late
endings(handle) ==
  IF handle.canceled THEN {"data", "error", driverCanceled} ELSE {"data", "error"}

\* the catch of execute(), the same in sqlite.js and the SQL Server client
settle(handle, kind) ==
  [handle EXCEPT !.pc = "settled",
                 !.outcome = IF kind = driverCanceled THEN CANCELED_BY_USER ELSE kind]

notReady(handle) ==
  [handle EXCEPT !.ncancel = @ + 1, !.cret = "Query not ready to be canceled"]

\* the driver is told to stop what the target runs
driverCancel(handle, cret) ==
  [handle EXCEPT !.ncancel = @ + 1, !.cret = cret, !.driverCancels = @ + 1,
                 !.canceled = @ \/ handle.pc = "run"]

\* sqlite.js execute(): runWithConnection opens the database
SqliteExecute ==
  /\ sqlite.pc = "new"
  /\ sqlite' = [sqlite EXCEPT !.pc = "open"]
  /\ UNCHANGED <<pg, conns, signals, mssql, regVars, taskVars, callVars>>

\* the database is open (or not): queryConnection = connection, and the
\* statements are handed to the driver
SqliteOpened ==
  /\ sqlite.pc = "open"
  /\ \E err \in BOOLEAN :
       sqlite' = IF err THEN settle(sqlite, "error")
                 ELSE [sqlite EXCEPT !.pc = "run", !.target = TRUE]
  /\ UNCHANGED <<pg, conns, signals, mssql, regVars, taskVars, callVars>>

\* the statements end; db.close()
SqliteResult ==
  /\ sqlite.pc = "run"
  /\ \E kind \in endings(sqlite) : sqlite' = settle(sqlite, kind)
  /\ UNCHANGED <<pg, conns, signals, mssql, regVars, taskVars, callVars>>

\* sqlite.js cancel(); interrupt() of a database closed already may throw
SqliteCancel ==
  /\ sqlite.ncancel < MaxCancels
  /\ IF ~sqlite.target THEN sqlite' = notReady(sqlite)
     ELSE \E cret \in (IF sqlite.pc = "run" THEN {"ok"} ELSE {"ok", "failed"}) :
            sqlite' = driverCancel(sqlite, cret)
  /\ UNCHANGED <<pg, conns, signals, mssql, regVars, taskVars, callVars>>

\* SQL Server execute(): runWithConnection awaits connect()
MssqlExecute ==
  /\ mssql.pc = "new"
  /\ mssql' = [mssql EXCEPT !.pc = "connect"]
  /\ UNCHANGED <<pg, conns, signals, sqlite, regVars, taskVars, callVars>>

\* connected (or not): request.query(queryText) is issued and
\* queryRequest = request
MssqlConnected ==
  /\ mssql.pc = "connect"
  /\ \E err \in BOOLEAN :
       mssql' = IF err THEN settle(mssql, "error")
                ELSE [mssql EXCEPT !.pc = "run", !.target = TRUE]
  /\ UNCHANGED <<pg, conns, signals, sqlite, regVars, taskVars, callVars>>

\* promiseQuery settles
MssqlResult ==
  /\ mssql.pc = "run"
  /\ \E kind \in endings(mssql) : mssql' = settle(mssql, kind)
  /\ UNCHANGED <<pg, conns, signals, sqlite, regVars, taskVars, callVars>>

\* SQL Server cancel()
MssqlCancel ==
  /\ mssql.ncancel < MaxCancels
  /\ mssql' = IF ~mssql.target THEN notReady(mssql) ELSE driverCancel(mssql, "ok")
  /\ UNCHANGED <<pg, conns, signals, sqlite, regVars, taskVars, callVars>>

(***************************************************************************)
(* crypto.ts at the level of bytes.  A text is a sequence of UTF-16 code   *)
(* units; cipher.update(text, 'utf8', 'hex') encodes it to bytes, adds the *)
(* key stream of aes-256-ctr and writes the bytes as hex digits.  Bytes    *)
(* have three bits here and a digit two: 0..3 are one-byte characters, 6   *)
(* leads a two-byte character, 4 and 5 continue one, 7 is never valid.     *)
(***************************************************************************)
Units == {"a", "e'", "hs"}   \* 'a', an accented letter, an unpaired surrogate

Texts == UNION {[1..n -> Units] : n \in 0..MaxText}

Replacement == "fffd"

\* Buffer encoding 'utf8' of one code unit; an unpaired surrogate is
\* written as U+FFFD
utf8Unit(u) ==
  IF u = "nul" THEN <<0>>
  ELSE IF u = "a" THEN <<1>>
  ELSE IF u = "b" THEN <<2>>
  ELSE IF u = "c" THEN <<3>>
  ELSE IF u = "e'" THEN <<6, 5>>
  ELSE <<6, 4>>

RECURSIVE utf8Encode(_)
utf8Encode(t) == IF t = <<>> THEN <<>> ELSE utf8Unit(Head(t)) \o utf8Encode(Tail(t))

\* decoding 'utf8': a byte that starts no valid sequence reads as U+FFFD
RECURSIVE utf8Decode(_)
utf8Decode(bytes) ==
  IF bytes = <<>> THEN <<>>
  ELSE IF Head(bytes) < 4
    THEN <<(<<"nul", "a", "b", "c">>)[Head(bytes) + 1]>> \o utf8Decode(Tail(bytes))
  ELSE IF Head(bytes) = 6 /\ Len(bytes) >= 2 /\ bytes[2] \in {4, 5}
    THEN <<IF bytes[2] = 5 THEN "e'" ELSE Replacement>> \o utf8Decode(Tail(Tail(bytes)))
  ELSE <<Replacement>> \o utf8Decode(Tail(bytes))

\* bitwise exclusive or of two three-bit bytes
Xor(a, b) ==
  ((a + b) % 2) + 2 * (((a \div 2) + (b \div 2)) % 2)
    + 4 * (((a \div 4) + (b \div 4)) % 2)

\* the key stream createCipher derives from the secret alone: byte i
keyStream(secret, i) ==
  IF secret = "k1" THEN (3 * i + 5) % 8 ELSE (5 * i + 2) % 8

cipherBytes(bytes, secret) ==
  [i \in 1..Len(bytes) |-> Xor(bytes[i], keyStream(secret, i))]

\* output encoding 'hex': two digits a byte
RECURSIVE toHex(_)
toHex(bytes) ==
  IF bytes = <<>> THEN <<>>
  ELSE <<Head(bytes) \div 4, Head(bytes) % 4>> \o toHex(Tail(bytes))

\* input encoding 'hex': a digit left over is dropped
RECURSIVE fromHex(_)
fromHex(digits) ==
  IF Len(digits) < 2 THEN <<>>
  ELSE <<4 * digits[1] + digits[2]>> \o fromHex(Tail(Tail(digits)))

\* crypto.ts encrypt
encryptHex(t, secret) ==
  IF cryptoThrows(secret) THEN Throw
  ELSE Value(toHex(cipherBytes(utf8Encode(t), secret)))

\* a decrypt that reads the bytes one character each, as 'latin1' would
decryptHexByteWise(digits, secret) ==
  IF cryptoThrows(secret) THEN Throw
  ELSE Value([i \in 1..Len(fromHex(digits)) |->
                IF cipherBytes(fromHex(digits), secret)[i] < 4
                  THEN (<<"nul", "a", "b", "c">>)[cipherBytes(fromHex(digits), secret)[i] + 1]
                  ELSE Replacement])

\* crypto.ts decrypt
decryptHex(digits, secret) ==
  IF cryptoThrows(secret) THEN Throw
  ELSE Value(utf8Decode(cipherBytes(fromHex(digits), secret)))

NotCalled == [kind |-> "none", val |-> <<>>]

CryptoIdle ==
  /\ plaintext = <<>>
  /\ secret2 = ""
  /\ crypted = NotCalled
  /\ dec = NotCalled

\* crypto.ts encrypt(text, secret)
Encrypt ==
  /\ crypted = NotCalled
  /\ crypted' = encryptHex(plaintext, cryptoSecret)
  /\ UNCHANGED <<plaintext, secret2, dec, regVars, taskVars, queryVars, batchVars, validateVars, prepareVars, moreVars>>

\* crypto.ts decrypt(text, secret) of what encrypt returned
Decrypt ==
  /\ crypted.kind = "value"
  /\ dec = NotCalled
  /\ dec' = decryptHex(crypted.val, secret2)
  /\ UNCHANGED <<plaintext, secret2, crypted, regVars, taskVars, queryVars, batchVars, validateVars, prepareVars, moreVars>>

(***************************************************************************)
(* validators/server: the schema of a descriptor and validate.  A field    *)
(* that is not given reads "undefined".                                    *)
(***************************************************************************)
Form(name, cl, ssl, host, port, socketPath) ==
  [name |-> name, client |-> cl, ssl |-> ssl, host |-> host, port |-> port,
   socketPath |-> socketPath]

Forms ==
  {Form(name, cl, ssl, host, port, socketPath) :
     name \in {"undefined", "n"},
     cl \in {"undefined", "postgresql", "sqlite", "oracle"},
     ssl \in {"undefined", "false"},
     host \in {"undefined", "", "h"},
     port \in {"undefined", "0", "5432"},
     socketPath \in {"undefined", "/s"}}

GoodForm == Form("n", "postgresql", "false", "h", "5432", "undefined")

\* the dialects registered, each with the fields of the shape server:<field>
\* its disabledFeatures name
CLIENTS ==
  {[key |-> "postgresql", disabledFeatures |-> {}],
   [key |-> "sqlite", disabledFeatures |-> {"host", "port", "socketPath"}]}

\* how a condition of the code reads a value of a form (port after toInt)
ToBoolean(v) == v \notin {"undefined", "null", "", "0"}

NoError == "undefined"

\* validators/server.ts serverAddressValidator
serverAddressValidatorTs(obj) ==
  LET host == ToBoolean(obj.host)
      port == ToBoolean(obj.port)
      socketPath == ToBoolean(obj.socketPath)
  IN IF (~host /\ ~port /\ ~socketPath) \/ ((host \/ port) /\ socketPath)
       THEN "You must use host+port or socket path"
     ELSE IF socketPath THEN NoError
     ELSE IF (host /\ ~port) \/ (~host /\ port)
       THEN "Host and port are required fields."
     ELSE NoError

\* part_008 serverAddressValidator
serverAddressValidatorJs(obj) ==
  LET host == ToBoolean(obj.host)
      port == ToBoolean(obj.port)
      socketPath == ToBoolean(obj.socketPath)
  IN IF (~host /\ ~socketPath) \/ (host /\ socketPath)
       THEN "You must use host or socket path"
     ELSE IF socketPath THEN NoError
     ELSE IF (host /\ ~port) \/ (~host /\ port)
       THEN "Host and port are required fields."
     ELSE NoError

serverAddressValidator(i, obj) ==
  IF i = "ts" THEN serverAddressValidatorTs(obj) ELSE serverAddressValidatorJs(obj)

\* CLIENTS.some((dbClient) => dbClient.key === value)
some(value) == \E dbClient \in CLIENTS : dbClient.key = value

\* the operator ~ on a boolean: the bits of 0 or 1 inverted
BitNot(b) == IF b THEN -2 ELSE -1

\* validators/server.ts clientValidator: !~CLIENTS.some(...)
clientValidatorTs(value) ==
  IF value \in {"undefined", "null"} THEN NoError
  ELSE IF BitNot(some(value)) = 0 THEN "Invalid client type"
  ELSE NoError

\* part_008 clientValidator: !CLIENTS.some(...)
clientValidatorJs(value) ==
  IF value \in {"undefined", "null"} THEN NoError
  ELSE IF ~some(value) THEN "Invalid client type"
  ELSE NoError

clientValidator(i, value) ==
  IF i = "ts" THEN clientValidatorTs(value) ELSE clientValidatorJs(value)

\* Valida.Validator.required
required(value) == value \in {"undefined", "null"}

\* Valida.Validator.len, min: 1, of a string that is given
len(value) == value = ""

\* validate: SERVER_SCHEMA without the fields the dialect disables
serverSchema(server) ==
  {"name", "client", "ssl", "host", "port", "socketPath"}
    \ UNION {dbClient.disabledFeatures : dbClient \in {c \in CLIENTS : c.key = server.client}}

\* validate: the validators that report an error (it throws when there is one)
validateErrors(i, server) ==
  LET schema == serverSchema(server)
  IN {v \in {"required:name", "len:name", "required:client", "clientValidator",
            "required:ssl", "len:host", "len:socketPath", "serverAddressValidator"} :
        \/ v = "required:name" /\ "name" \in schema /\ required(server.name)
        \/ v = "len:name" /\ "name" \in schema /\ len(server.name)
        \/ v = "required:client" /\ "client" \in schema /\ required(server.client)
        \/ v = "clientValidator" /\ "client" \in schema
             /\ clientValidator(i, server.client) # NoError
        \/ v = "required:ssl" /\ "ssl" \in schema /\ required(server.ssl)
        \/ v = "len:host" /\ "host" \in schema /\ len(server.host)
        \/ v = "len:socketPath" /\ "socketPath" \in schema /\ len(server.socketPath)
        \/ v = "serverAddressValidator" /\ {"host", "port", "socketPath"} \cap schema # {}
             /\ serverAddressValidator(i, server) # NoError}

NotValidated == {"not called"}

ValidateIdle ==
  /\ form = GoodForm
  /\ addrError = "not called"
  /\ verdict = NotValidated
  /\ persisted = <<>>

\* serverAddressValidator(ctx) with ctx.obj the descriptor
ServerAddressValidator ==
  /\ addrError = "not called"
  /\ addrError' = serverAddressValidator(impl, form)
  /\ UNCHANGED <<form, verdict, persisted, regVars, taskVars, queryVars, batchVars, cryptoVars, prepareVars, moreVars>>

\* validate(server)
Validate ==
  /\ verdict = NotValidated
  /\ verdict' = validateErrors(impl, form)
  /\ UNCHANGED <<form, addrError, persisted, regVars, taskVars, queryVars, batchVars, cryptoVars, prepareVars, moreVars>>

\* add(server): validate throws, or the descriptor is pushed and saved
AddForm ==
  /\ verdict = NotValidated
  /\ persisted = <<>>
  /\ verdict' = validateErrors(impl, form)
  /\ persisted' = IF verdict' = {} THEN Append(persisted, form) ELSE persisted
  /\ UNCHANGED <<form, addrError, regVars, taskVars, queryVars, batchVars, cryptoVars, prepareVars, moreVars>>

\* update(server): validate throws, or the descriptor replaces the stored one
UpdateForm ==
  /\ verdict = NotValidated
  /\ persisted # <<>>
  /\ verdict' = validateErrors(impl, form)
  /\ persisted' = IF verdict' = {} THEN <<form>> ELSE persisted
  /\ UNCHANGED <<form, addrError, regVars, taskVars, queryVars, batchVars, cryptoVars, prepareVars, moreVars>>

(***************************************************************************)
(* config.prepare on a configuration file.  A server of the file is a      *)
(* descriptor and its ssl field; NoSecret is a descriptor without a        *)
(* password key.  In config.js the secrecy flag (encrypted here) is the    *)
(* field hashedPwd.                                                        *)
(***************************************************************************)
ConfigServer(srv, ssl) == [srv |-> srv, ssl |-> ssl]

ConfigServers ==
  {ConfigServer(Server(id, "n", pw, ssh, flag), ssl) :
     id \in {"", "i1"}, pw \in {NoSecret, Plain("p")},
     ssh \in {NoSsh, Ssh(Plain("s"))},
     flag \in {"undefined", "true", "false"},
     ssl \in {"undefined", "false", "true"}}

NoFile == [exists |-> FALSE, servers |-> <<>>]

\* EMPTY_CONFIG
EMPTY_CONFIG == [exists |-> TRUE, servers |-> <<>>]

Configs ==
  {NoFile} \cup
  {[exists |-> TRUE, servers |-> servers] :
     servers \in UNION {[1..n -> ConfigServers] : n \in 0..MaxConfig}}

\* utils encryptString: createCipher('aes192', 'sqlectron')
encryptString(str) == encrypt(str, "sqlectron")

\* utils decryptString: createDecipher('aes192', 'sqlectron')
decryptString(str) == decrypt(str, "sqlectron")

\* cipher.update(str, 'utf8', 'hex') throws a TypeError when str is undefined
encryptStringThrows(str) == str = NoSecret

\* config.ts sanitizeServer
sanitizeServerTs(server, secret, newId) ==
  ConfigServer(sanitizeServer(server.srv, secret, newId),
               IF server.ssl = "undefined" THEN "false" ELSE server.ssl)

\* config.js sanitizeServers: the function mapped over data.servers
sanitizeServerJsThrows(server) ==
  server.srv.encrypted # "true" /\ encryptStringThrows(server.srv.password)

sanitizeServerJs(server, newId) ==
  LET withId == [server.srv EXCEPT !.id = IF @ = "" THEN newId ELSE @]
  IN ConfigServer(IF withId.encrypted = "true" THEN withId
                  ELSE [withId EXCEPT !.password = encryptString(@),
                                      !.encrypted = "true"],
                  IF server.ssl = "undefined" THEN "false" ELSE server.ssl)

sanitizeServers(i, servers, secret, newIds) ==
  [j \in 1..Len(servers) |->
     IF i = "ts" THEN sanitizeServerTs(servers[j], secret, newIds[j])
     ELSE sanitizeServerJs(servers[j], newIds[j])]

sanitizeServersThrows(i, servers, secret) ==
  \E j \in 1..Len(servers) :
    IF i = "ts" THEN sanitizeServerThrows(servers[j].srv, secret)
    ELSE sanitizeServerJsThrows(servers[j])

NotPrepared == [kind |-> "none", servers |-> <<>>]

\* prepare / prepareSync: EMPTY_CONFIG is written when there is no file; the
\* file is read, sanitized and written
prepareFile(i, cfg, secret, newIds) ==
  LET result == IF cfg.exists THEN cfg ELSE EMPTY_CONFIG
  IN IF sanitizeServersThrows(i, result.servers, secret)
       THEN [kind |-> "throw", servers |-> result.servers]
       ELSE [kind |-> "written",
             servers |-> sanitizeServers(i, result.servers, secret, newIds)]

PrepareIdle ==
  /\ config = NoFile
  /\ prepared = NotPrepared

\* config.prepare(cryptoSecret)
PrepareFile ==
  /\ prepared = NotPrepared
  /\ \E newIds \in [1..Len(config.servers) -> Ids] :
       prepared' = prepareFile(impl, config, cryptoSecret, newIds)
  /\ UNCHANGED <<config, regVars, taskVars, queryVars, batchVars, cryptoVars, validateVars, moreVars>>

\* config.prepareSync(cryptoSecret)
PrepareSyncFile ==
  /\ prepared = NotPrepared
  /\ \E newIds \in [1..Len(config.servers) -> Ids] :
       prepared' = prepareFile(impl, config, cryptoSecret, newIds)
  /\ UNCHANGED <<config, regVars, taskVars, queryVars, batchVars, cryptoVars, validateVars, moreVars>>

(***************************************************************************)
(* executeQuery(conn, queryText) of the three adapters.  queryText is a    *)
(* batch of statements; a statement is what the database makes of it (its  *)
(* command tag, the rows it returns, the rows it changes, whether it       *)
(* fails) and what sql-query-identifier makes of it (its type).            *)
(***************************************************************************)
Clients == {"postgresql", "sqlite", "sqlserver"}

\* a count the driver does not report (undefined or null)
NoCount == -1

Stmt(tag, type, rows, changes, fails) ==
  [tag |-> tag, type |-> type, rows |-> rows, changes |-> changes, fails |-> fails]

\* an empty statement (';;'): no command tag, and not a statement to the
\* identifier
EmptyStmt == Stmt("null", "", 0, NoCount, FALSE)

Statements ==
  { Stmt("SELECT", "SELECT", 1, NoCount, FALSE),
    Stmt("SELECT", "SELECT", 0, NoCount, FALSE),
    Stmt("SHOW", "UNKNOWN", 1, NoCount, FALSE),
    Stmt("INSERT", "INSERT", 0, 1, FALSE),
    Stmt("UPDATE", "UPDATE", 0, 0, FALSE),
    Stmt("CREATE DATABASE", "CREATE_DATABASE", 0, NoCount, FALSE),
    Stmt("INSERT", "INSERT", 0, 0, TRUE),
    EmptyStmt }

Batches == UNION {[1..n -> Statements] : n \in 1..MaxBatch}

IsStatement(st) == st.tag # "null"

\* the statement returns a record set
IsQuery(st) == st.tag \in {"SELECT", "SHOW"}

Fails(st) == st.fails

\* sql-query-identifier: executionType of a statement type
executionType(type) ==
  IF type = "SELECT" THEN "LISTING"
  ELSE IF type = "UNKNOWN" THEN "UNKNOWN"
  ELSE "MODIFICATION"

\* sql-query-identifier identify(queryText, {strict}): one entry per
\* statement; a statement it does not know is an error in strict mode and
\* of type UNKNOWN otherwise
identifyThrows(b, strict) ==
  strict /\ \E j \in 1..Len(b) : IsStatement(b[j]) /\ b[j].type = "UNKNOWN"

identify(b) == SelectSeq(b, IsStatement)

\* identifyCommands of postgresql.js and of the SQL Server client (strict)
identifyCommands(b) == IF identifyThrows(b, TRUE) THEN <<>> ELSE identify(b)

\* sqlite.js identifyCommands (strict: false)
identifyCommandsSqlite(b) == IF identifyThrows(b, FALSE) THEN <<>> ELSE identify(b)

\* commands[idx] of identifyCommands(queryText).map((item) => item.type)
commandAt(commands, idx) ==
  IF idx <= Len(commands) THEN commands[idx].type ELSE "undefined"

RECURSIVE Sum(_)
Sum(ns) == IF ns = <<>> THEN 0 ELSE Head(ns) + Sum(Tail(ns))

\* index of the first statement of b that fails, 0 if none does
firstFailure(b) ==
  IF \E j \in 1..Len(b) : b[j].fails
    THEN Min({j \in 1..Len(b) : b[j].fails}) ELSE 0

NoOutcome == [kind |-> "new", results |-> <<>>, errAt |-> 0]

Resolved(results) == [kind |-> "results", results |-> results, errAt |-> 0]

Rejected(j) == [kind |-> "error", results |-> <<>>, errAt |-> j]

BatchIdle ==
  /\ client = ""
  /\ batch = <<>>
  /\ dbRan = 0
  /\ outcome = NoOutcome

\* node-postgres, multiResult: one result per statement of the text
pgResult(st) ==
  [command |-> st.tag, rows |-> st.rows,
   rowCount |-> IF IsQuery(st) THEN st.rows ELSE st.changes]

HasCommand(result) == result.command # "null"

\* postgresql.js parseRowQueryResult
parseRowQueryResultPg(data, command) ==
  LET isSelect == data.command = "SELECT"
  IN [command |-> IF command # "undefined" THEN command ELSE data.command,
      rows |-> data.rows,
      rowCount |-> IF isSelect THEN data.rows ELSE NoCount,
      affectedRows |-> IF ~isSelect /\ data.rowCount # NoCount
                         THEN data.rowCount ELSE NoCount]

\* an executeQuery that keeps the results without a command
executeQueryPgUnfiltered(b) ==
  LET commands == identifyCommands(b)
      data == [j \in 1..Len(b) |-> pgResult(b[j])]
  IN [idx \in 1..Len(data) |->
        parseRowQueryResultPg(data[idx], commandAt(commands, idx))]

\* postgresql.js executeQuery, for a text the server runs to its end
executeQueryPg(b) ==
  LET commands == identifyCommands(b)
      data == [j \in 1..Len(b) |-> pgResult(b[j])]
      kept == SelectSeq(data, HasCommand)
  IN [idx \in 1..Len(kept) |->
        parseRowQueryResultPg(kept[idx], commandAt(commands, idx))]

\* postgresql.js executeQuery: the text is one query of the driver
PgExecuteQuery ==
  /\ client = "postgresql"
  /\ outcome.kind = "new"
  /\ outcome' = IF firstFailure(batch) # 0 THEN Rejected(firstFailure(batch))
                ELSE Resolved(executeQueryPg(batch))
  /\ UNCHANGED <<client, batch, dbRan, regVars, taskVars, queryVars, cryptoVars, validateVars, prepareVars, moreVars>>

\* sqlite3: what the callback of connection.all / connection.run gets
sqliteResult(statement) ==
  IF executionType(statement.type) = "MODIFICATION"
    THEN [isArray |-> FALSE, data |-> NoCount, changes |-> statement.changes,
          statement |-> statement]
    ELSE [isArray |-> TRUE, data |-> statement.rows, changes |-> NoCount,
          statement |-> statement]

\* sqlite.js parseRowQueryResult
parseRowQueryResultSqlite(result) ==
  LET isSelect == result.isArray
  IN [command |-> IF result.statement.type # "" THEN result.statement.type
                  ELSE IF isSelect THEN "SELECT" ELSE "false",
      rows |-> IF result.isArray THEN result.data ELSE 0,
      rowCount |-> IF result.isArray THEN result.data ELSE NoCount,
      affectedRows |-> IF result.changes \in {NoCount, 0} THEN 0 ELSE result.changes]

\* sqlite.js executeQuery, once every statement has run
executeQuerySqlite(b) ==
  LET statements == identifyCommandsSqlite(b)
  IN [idx \in 1..Len(statements) |->
        parseRowQueryResultSqlite(sqliteResult(statements[idx]))]

\* sqlite.js driverExecuteQuery: statements.map hands every identified
\* statement to the driver, and Promise.all waits for them
SqliteDriverExecuteQuery ==
  /\ client = "sqlite"
  /\ outcome.kind = "new"
  /\ outcome' = IF identifyCommandsSqlite(batch) = <<>> THEN Resolved(<<>>)
                ELSE [NoOutcome EXCEPT !.kind = "pending"]
  /\ UNCHANGED <<client, batch, dbRan, regVars, taskVars, queryVars, cryptoVars, validateVars, prepareVars, moreVars>>

\* the serialized database runs the next statement it was handed; the
\* first rejection settles Promise.all, the last result resolves it
SqliteRunStatement ==
  /\ client = "sqlite"
  /\ outcome.kind \in {"pending", "error"}
  /\ dbRan < Len(identifyCommandsSqlite(batch))
  /\ dbRan' = dbRan + 1
  /\ LET statements == identifyCommandsSqlite(batch)
     IN outcome' =
          IF outcome.kind = "error" THEN outcome
          ELSE IF statements[dbRan + 1].fails THEN Rejected(dbRan + 1)
          ELSE IF dbRan + 1 = Len(statements) THEN Resolved(executeQuerySqlite(batch))
          ELSE outcome
  /\ UNCHANGED <<client, batch, regVars, taskVars, queryVars, cryptoVars, validateVars, prepareVars, moreVars>>

\* SQL Server parseRowQueryResult
parseRowQueryResultMssql(data, rowsAffected, command) ==
  LET isSelect == data # 0 \/ rowsAffected = 0
  IN [command |-> IF command # "undefined" THEN command
                  ELSE IF isSelect THEN "SELECT" ELSE "false",
      rows |-> data,
      rowCount |-> data,
      affectedRows |-> rowsAffected]

\* how many rows a statement adds to result.rowsAffected; whether the rows
\* of a record set are counted is the driver's choice
rowsAffectedOf(st, counted) ==
  IF IsQuery(st) THEN (IF counted THEN st.rows ELSE 0)
  ELSE IF st.changes = NoCount THEN 0 ELSE st.changes

\* an executeQuery that returns the record sets as they are
executeQueryMssqlNoFake(b, counted) ==
  LET data == SelectSeq(b, IsQuery)
      rowsAffected == Sum([j \in 1..Len(b) |-> rowsAffectedOf(b[j], counted)])
      commands == identifyCommands(b)
  IN [idx \in 1..Len(data) |->
        parseRowQueryResultMssql(data[idx].rows, rowsAffected, commandAt(commands, idx))]

\* SQL Server executeQuery, for a batch the server runs to its end:
\* result.recordsets has one record set per statement that returns one
executeQueryMssql(b, counted) ==
  LET data == SelectSeq(b, IsQuery)
      rowsAffected == Sum([j \in 1..Len(b) |-> rowsAffectedOf(b[j], counted)])
      commands == identifyCommands(b)
      results == IF Len(data) = 0 /\ rowsAffected # 0
                   THEN <<0>> ELSE [j \in 1..Len(data) |-> data[j].rows]
  IN [idx \in 1..Len(results) |->
        parseRowQueryResultMssql(results[idx], rowsAffected, commandAt(commands, idx))]

\* SQL Server executeQuery: the text is one request.query
MssqlExecuteQuery ==
  /\ client = "sqlserver"
  /\ outcome.kind = "new"
  /\ \E counted \in BOOLEAN :
       outcome' = IF firstFailure(batch) # 0 THEN Rejected(firstFailure(batch))
                  ELSE Resolved(executeQueryMssql(batch, counted))
  /\ UNCHANGED <<client, batch, dbRan, regVars, taskVars, queryVars, cryptoVars, validateVars, prepareVars, moreVars>>

(***************************************************************************)
(* The Cassandra adapter: query and executeQuery of the object the client  *)
(* resolves with.  returned is the set of methods of what query returned. *)
(***************************************************************************)
CassIdle ==
  [pc |-> "idle", text |-> <<>>, ran |-> 0, returned |-> {}, cancelRet |-> "not called",
   outcome |-> "none"]

PromiseMethods == {"then", "catch"}

\* cassandra executeQuery: client.execute(queryText, callback) in the executor
\* of the promise it returns
cassandraExecuteQuery(queryText) ==
  [pc |-> "running", text |-> queryText, ran |-> 1, returned |-> PromiseMethods,
   cancelRet |-> "not called", outcome |-> "none"]

\* query: (queryText) => executeQuery(client, queryText)
CassandraQuery ==
  /\ cass.pc = "idle"
  /\ \E queryText \in Batches : cass' = cassandraExecuteQuery(queryText)
  /\ UNCHANGED <<regVars, taskVars, queryVars, callVars0, util, session, tunnel>>

\* the callback of client.execute: reject(err) or resolve([...])
CassandraCallback ==
  /\ cass.pc = "running"
  /\ cass' = [cass EXCEPT !.pc = "settled",
                          !.outcome = IF firstFailure(cass.text) > 0 THEN "rejected"
                                      ELSE "resolved"]
  /\ UNCHANGED <<regVars, taskVars, queryVars, callVars0, util, session, tunnel>>

\* cancel() on what query returned: a promise has no such method
CassandraCancel ==
  /\ cass.pc # "idle"
  /\ cass.cancelRet = "not called"
  /\ cass' = [cass EXCEPT !.cancelRet =
                IF "cancel" \in cass.returned THEN "called"
                ELSE "TypeError: cancel is not a function"]
  /\ UNCHANGED <<regVars, taskVars, queryVars, callVars0, util, session, tunnel>>

(***************************************************************************)
(* utils versionCompare.  A version is what a.split('.') gives: its        *)
(* components, each a string.                                              *)
(***************************************************************************)
UtilIdle == [op |-> "none", a |-> <<>>, b |-> <<>>, ret |-> 0]

Components == {"1", "8", "12", ""}

Versions == UNION {[1..n -> Components] : n \in 1..MaxParts}

NaN == [nan |-> TRUE, n |-> 0]

\* parseInt(val, 10)
parseInt(val) ==
  IF val = "1" THEN [nan |-> FALSE, n |-> 1]
  ELSE IF val = "8" THEN [nan |-> FALSE, n |-> 8]
  ELSE IF val = "12" THEN [nan |-> FALSE, n |-> 12]
  ELSE NaN

\* x > y on numbers: false when either is NaN
Greater(x, y) == ~x.nan /\ ~y.nan /\ x.n > y.n

\* the loop of versionCompare from position i on
RECURSIVE versionCompareFrom(_, _, _)
versionCompareFrom(fullA, fullB, i) ==
  IF ~(i <= Min({Len(fullA), Len(fullB)})) THEN 0
  ELSE IF Greater(fullA[i], fullB[i]) THEN 1
  ELSE IF Greater(fullB[i], fullA[i]) THEN -1
  ELSE versionCompareFrom(fullA, fullB, i + 1)

\* a versionCompare that reads a missing component as 0
versionCompareFull(a, b) ==
  LET zero == [nan |-> FALSE, n |-> 0]
      longer == IF Len(a) > Len(b) THEN Len(a) ELSE Len(b)
  IN versionCompareFrom([i \in 1..longer |-> IF i <= Len(a) THEN parseInt(a[i]) ELSE zero],
                        [i \in 1..longer |-> IF i <= Len(b) THEN parseInt(b[i]) ELSE zero], 1)

\* utils versionCompare
versionCompare(a, b) ==
  versionCompareFrom([i \in 1..Len(a) |-> parseInt(a[i])],
                     [i \in 1..Len(b) |-> parseInt(b[i])], 1)

(***************************************************************************)
(* wrapIdentifier of the adapters.  A name is a sequence of characters.    *)
(***************************************************************************)
Chars == {"a", "*", "1", "[", "]", "\""}

Names == UNION {[1..n -> Chars] : n \in 0..MaxName}

Dialects == {"postgresql", "sqlite", "cassandra", "sqlserver"}

\* value.replace(/x/g, y): every character x replaced by the string y
RECURSIVE replace(_, _, _)
replace(value, x, y) ==
  IF value = <<>> THEN <<>>
  ELSE (IF Head(value) = x THEN y ELSE <<Head(value)>>) \o replace(Tail(value), x, y)

\* value.match(/(.*?)(\[[0-9]\])/): where the leftmost [digit] starts, or 0
match(value) ==
  LET at == {i \in 1..(Len(value) - 2) :
               value[i] = "[" /\ value[i + 1] = "1" /\ value[i + 2] = "]"}
  IN IF at = {} THEN 0 ELSE Min(at)

\* wrapIdentifier of postgresql.js, sqlite.js and the Cassandra adapter
RECURSIVE wrapIdentifierPg(_)
wrapIdentifierPg(value) ==
  IF value = <<"*">> THEN value
  ELSE IF match(value) # 0
    THEN wrapIdentifierPg(SubSeq(value, 1, match(value) - 1))
           \o SubSeq(value, match(value), match(value) + 2)
  ELSE <<"\"">> \o replace(value, "\"", <<"\"", "\"">>) \o <<"\"">>

\* wrapIdentifier of the SQL Server adapter
wrapIdentifierMssql(value) ==
  IF value # <<"*">> THEN <<"[">> \o replace(value, "[", <<"[">>) \o <<"]">>
  ELSE <<"*">>

wrapIdentifier(dialect, value) ==
  IF dialect = "sqlserver" THEN wrapIdentifierMssql(value) ELSE wrapIdentifierPg(value)

WrapIdentifier ==
  /\ util.op = "none"
  /\ \E dialect \in Dialects, value \in Names :
       util' = [op |-> "wrapIdentifier", a |-> <<dialect>>, b |-> value,
                ret |-> wrapIdentifier(dialect, value)]
  /\ UNCHANGED <<regVars, taskVars, queryVars, callVars0, cass, session, tunnel>>

VersionCompare ==
  /\ util.op = "none"
  /\ \E a \in Versions, b \in Versions :
       util' = [op |-> "versionCompare", a |-> a, b |-> b, ret |-> versionCompare(a, b)]
  /\ UNCHANGED <<regVars, taskVars, queryVars, callVars0, cass, session, tunnel>>

(***************************************************************************)
(* A session of createServer.  server.db is a plain object: by holds the   *)
(* connection stored under each name (0: no own property), and a name of   *)
(* Object.prototype reads as the inherited value when there is none.       *)
(* Connections and tunnels are numbered in the order they are made.        *)
(***************************************************************************)
DbNames == {"d1", "d2", "constructor"}

NoCall == [op |-> "none", name |-> "", ret |-> 0]

\* a value read from server.db that is no connection: undefined, or what
\* Object.prototype holds under the name
undefined == 0
Inherited == -1

SessionIdle ==
  [ssh |-> FALSE, by |-> [n \in DbNames |-> 0], made |-> 0,
   disconnects |-> [c \in 1..MaxConns |-> 0],
   sshTunnel |-> 0, tunnels |-> 0, closes |-> [t \in 1..MaxTunnels |-> 0],
   ends |-> 0, first |-> [n \in DbNames |-> 0], built |-> [n \in DbNames |-> 0],
   last |-> NoCall]

\* server.db[dbName]
lookup(by, dbName) ==
  IF by[dbName] # 0 THEN by[dbName]
  ELSE IF dbName = "constructor" THEN Inherited
  ELSE undefined

\* Object.keys(server.db)
keys(by) == {n \in DbNames : by[n] # 0}

\* db(dbName)
Db ==
  \E dbName \in DbNames :
    /\ session' = [session EXCEPT
                     !.last = [op |-> "db", name |-> dbName, ret |-> lookup(session.by, dbName)]]
    /\ UNCHANGED <<regVars, taskVars, queryVars, callVars0, cass, util, tunnel>>

\* createConnection(dbName, cryptoSecret); first and built record the first
\* value returned for the name and how many connections were made for it
createConnectionCall(ses, dbName) ==
  IF lookup(ses.by, dbName) # undefined
    THEN [ses EXCEPT
            !.first[dbName] = IF @ = 0 THEN lookup(ses.by, dbName) ELSE @,
            !.last = [op |-> "createConnection", name |-> dbName,
                      ret |-> lookup(ses.by, dbName)]]
    ELSE [ses EXCEPT
            !.made = @ + 1,
            !.by[dbName] = ses.made + 1,
            !.built[dbName] = @ + 1,
            !.first[dbName] = IF @ = 0 THEN ses.made + 1 ELSE @,
            !.last = [op |-> "createConnection", name |-> dbName, ret |-> ses.made + 1]]

CreateConnection ==
  \E dbName \in DbNames :
    /\ lookup(session.by, dbName) = undefined => session.made < MaxConns
    /\ session' = createConnectionCall(session, dbName)
    /\ UNCHANGED <<regVars, taskVars, queryVars, callVars0, cass, util, tunnel>>

\* connect() of a connection: when the descriptor has an ssh block and no
\* tunnel is running, one is started and kept in server.sshTunnel
Connect ==
  /\ session.made > 0
  /\ session.ssh
  /\ session.sshTunnel = 0
  /\ session.tunnels < MaxTunnels
  /\ session' = [session EXCEPT !.tunnels = @ + 1, !.sshTunnel = session.tunnels + 1,
                                !.last = [op |-> "connect", name |-> "", ret |-> 0]]
  /\ UNCHANGED <<regVars, taskVars, queryVars, callVars0, cass, util, tunnel>>

\* an end() that leaves the handle in server.sshTunnel
endKeepsHandle(ses) ==
  [ses EXCEPT
     !.disconnects = [c \in 1..MaxConns |->
                        IF \E n \in keys(ses.by) : ses.by[n] = c THEN @[c] + 1 ELSE @[c]],
     !.closes = [t \in 1..MaxTunnels |-> IF t = ses.sshTunnel THEN @[t] + 1 ELSE @[t]],
     !.ends = @ + 1,
     !.last = [op |-> "end", name |-> "", ret |-> 0]]

\* end()
end(ses) ==
  [ses EXCEPT
     !.disconnects = [c \in 1..MaxConns |->
                        IF \E n \in keys(ses.by) : ses.by[n] = c THEN @[c] + 1 ELSE @[c]],
     !.closes = [t \in 1..MaxTunnels |-> IF t = ses.sshTunnel THEN @[t] + 1 ELSE @[t]],
     !.sshTunnel = 0,
     !.ends = @ + 1,
     !.last = [op |-> "end", name |-> "", ret |-> 0]]

End ==
  /\ session.ends < MaxEnds
  /\ session' = end(session)
  /\ UNCHANGED <<regVars, taskVars, queryVars, callVars0, cass, util, tunnel>>

(***************************************************************************)
(* The SSH tunnel server.  Each inbound socket has the position of its     *)
(* connection handler (pc), whether it is still open, and whether the      *)
(* tunnel has called end() on it; errors holds the kinds of error the      *)
(* server has emitted.                                                     *)
(***************************************************************************)
Sockets == 1..NSockets

NoSocket == [pc |-> "none", open |-> FALSE, ended |-> FALSE]

TunnelIdle ==
  [listening |-> FALSE, closing |-> FALSE, closed |-> FALSE, errors |-> {},
   socks |-> [i \in Sockets |-> NoSocket]]

\* connections.push(conn), connections.push(client)
tracked(tun) == {i \in Sockets : tun.socks[i].pc # "none"}

Other ==  <<regVars, taskVars, queryVars, callVars0, cass, util, session>>

\* net.createServer handler up to await getPort(): the handlers are set and
\* the socket is tracked
TunnelAccept(i) ==
  /\ tunnel.listening
  /\ tunnel.socks[i].pc = "none"
  /\ tunnel' = [tunnel EXCEPT !.socks[i] = [pc |-> "getPort", open |-> TRUE, ended |-> FALSE]]
  /\ UNCHANGED Other

\* getPort resolves: client.connect({...config, localPort})
TunnelClientConnect(i) ==
  /\ tunnel.socks[i].pc = "getPort"
  /\ tunnel' = [tunnel EXCEPT !.socks[i].pc = "connecting"]
  /\ UNCHANGED Other

\* getPort or client.connect throws: catch (err) { server.emit('error', err) }
TunnelConnectFails(i) ==
  /\ tunnel.socks[i].pc = "getPort"
  /\ tunnel' = [tunnel EXCEPT !.socks[i].pc = "failed", !.errors = @ \cup {"connect"}]
  /\ UNCHANGED Other

\* client.on('ready'): the client is tracked and forwardOut is called
TunnelClientReady(i) ==
  /\ tunnel.socks[i].pc = "connecting"
  /\ tunnel' = [tunnel EXCEPT !.socks[i].pc = "forwarding"]
  /\ UNCHANGED Other

\* client.on('error'): server.emit('error', err)
TunnelClientError(i) ==
  /\ tunnel.socks[i].pc \in {"connecting", "forwarding", "piped"}
  /\ tunnel' = [tunnel EXCEPT !.socks[i].pc = "failed", !.errors = @ \cup {"client"}]
  /\ UNCHANGED Other

\* the callback of forwardOut with err: server.close(); server.emit('error')
TunnelForwardFails(i) ==
  /\ tunnel.socks[i].pc = "forwarding"
  /\ tunnel' = [tunnel EXCEPT !.socks[i].pc = "failed", !.errors = @ \cup {"forwardOut"},
                              !.listening = FALSE, !.closing = ~tunnel.closed]
  /\ UNCHANGED Other

\* the callback of forwardOut without err: emit('success'), the streams piped
TunnelForwarded(i) ==
  /\ tunnel.socks[i].pc = "forwarding"
  /\ tunnel' = [tunnel EXCEPT !.socks[i].pc = "piped"]
  /\ UNCHANGED Other

\* conn.on('error'): server.emit('error', err); the socket itself is
\* destroyed by net after its error
TunnelSocketError(i) ==
  /\ tunnel.socks[i].pc # "none"
  /\ tunnel.socks[i].open
  /\ tunnel' = [tunnel EXCEPT !.socks[i].open = FALSE, !.errors = @ \cup {"socket"}]
  /\ UNCHANGED Other

\* the peer of an inbound socket ends it
TunnelPeerEnds(i) ==
  /\ tunnel.socks[i].pc # "none"
  /\ tunnel.socks[i].open
  /\ tunnel' = [tunnel EXCEPT !.socks[i].open = FALSE]
  /\ UNCHANGED Other

\* server.once('close'): net emits 'close' after server.close() once every
\* connection has ended; connections.forEach((conn) => conn.end())
TunnelClosed ==
  /\ tunnel.closing
  /\ \A i \in Sockets : ~tunnel.socks[i].open
  /\ tunnel' = [tunnel EXCEPT !.closing = FALSE, !.closed = TRUE,
                              !.socks = [i \in Sockets |->
                                           IF i \in tracked(tunnel)
                                             THEN [@[i] EXCEPT !.ended = TRUE] ELSE @[i]]]
  /\ UNCHANGED Other


MoreIdle ==
  /\ cass = CassIdle
  /\ util = UtilIdle
  /\ session = SessionIdle
  /\ tunnel = TunnelIdle

CallsIdle == BatchIdle /\ CryptoIdle /\ ValidateIdle /\ PrepareIdle /\ MoreIdle


(***************************************************************************)
(* Registries the program starts from: none, one written by hand and not   *)
(* yet prepared, and prepared ones holding legacy ciphertext.              *)
(***************************************************************************)
Raw == Server("", "n", Plain("p"), Ssh(Plain("s")), "undefined")
Stored1(k) == Server("i1", "n", encrypt(Plain("p"), k), Ssh(encrypt(Plain("s"), k)), "true")
Stored2(k) == Server("i2", "n", encrypt(Plain("p"), k), NoSsh, "true")

InitFiles(k) ==
  {<<>>, <<Raw>>}
    \cup (IF k # "" THEN {<<Stored1(k)>>, <<Stored1(k), Stored2(k)>>} ELSE {})

Init ==
  /\ impl \in Impls
  /\ cryptoSecret \in Keys
  /\ file \in InitFiles(cryptoSecret)
  /\ hist = <<>>
  /\ nops = 0
  /\ TasksIdle
  /\ QueryIdle
  /\ CallsIdle

Next ==
  \/ Add
  \/ Update
  \/ AddOrUpdate
  \/ RemoveById
  \/ Prepare
  \/ DecryptSecrects

Spec == Init /\ [][Next]_vars

ConcurrentInit ==
  /\ impl \in Impls
  /\ cryptoSecret \in Keys
  /\ file \in InitFiles(cryptoSecret)
  /\ file0 = file
  /\ hist = <<>>
  /\ nops = 0
  /\ settings = 0
  /\ tasks = [t \in Tasks |-> IdleTask]
  /\ QueryIdle
  /\ CallsIdle

ConcurrentNext ==
  \E t \in Tasks :
    \/ CallAdd(t)
    \/ CallUpdate(t)
    \/ CallRemoveById(t)
    \/ CallSaveSettings(t)
    \/ ReadJSONFile(t)
    \/ WriteJSONFile(t)

SpecConcurrent == ConcurrentInit /\ [][ConcurrentNext]_vars

QueryInit ==
  /\ impl = "js"
  /\ cryptoSecret = ""
  /\ file = <<>>
  /\ hist = <<>>
  /\ nops = 0
  /\ TasksIdle
  /\ QueryIdle
  /\ CallsIdle

QueryNext ==
  \/ \E h \in Handles :
       \/ PgExecute(h)
       \/ PgPoolConnect(h)
       \/ PgPidResult(h)
       \/ PgQueryResult(h)
       \/ PgCancelableWait(h)
       \/ PgCancel(h)
       \/ PgCancelConnect(h)
       \/ PgCancelBackend(h)
       \/ PgCancelResult(h)
  \/ \E c \in Pids :
       \/ PgBackendFinish(c)
       \/ PgLateResult(c)

SpecQuery == QueryInit /\ [][QueryNext]_vars

BatchInit ==
  /\ MoreIdle
  /\ impl = "js"
  /\ cryptoSecret = ""
  /\ file = <<>>
  /\ hist = <<>>
  /\ nops = 0
  /\ TasksIdle
  /\ QueryIdle
  /\ ValidateIdle
  /\ PrepareIdle
  /\ CryptoIdle
  /\ client \in Clients
  /\ batch \in Batches
  /\ dbRan = 0
  /\ outcome = NoOutcome

BatchNext ==
  \/ PgExecuteQuery
  \/ SqliteDriverExecuteQuery
  \/ SqliteRunStatement
  \/ MssqlExecuteQuery

SpecBatch == BatchInit /\ [][BatchNext]_vars

CryptoInit ==
  /\ MoreIdle
  /\ impl = "ts"
  /\ cryptoSecret \in Keys
  /\ file = <<>>
  /\ hist = <<>>
  /\ nops = 0
  /\ TasksIdle
  /\ QueryIdle
  /\ ValidateIdle
  /\ PrepareIdle
  /\ BatchIdle
  /\ plaintext \in Texts
  /\ secret2 \in Keys
  /\ crypted = NotCalled
  /\ dec = NotCalled

CryptoNext == Encrypt \/ Decrypt

SpecCrypto == CryptoInit /\ [][CryptoNext]_vars

ValidateInit ==
  /\ MoreIdle
  /\ impl \in Impls
  /\ cryptoSecret = "k1"
  /\ file = <<>>
  /\ hist = <<>>
  /\ nops = 0
  /\ TasksIdle
  /\ QueryIdle
  /\ BatchIdle
  /\ CryptoIdle
  /\ PrepareIdle
  /\ form \in Forms
  /\ addrError = "not called"
  /\ verdict = NotValidated
  /\ persisted \in {<<>>, <<GoodForm>>}

ValidateNext == ServerAddressValidator \/ Validate \/ AddForm \/ UpdateForm

SpecValidate == ValidateInit /\ [][ValidateNext]_vars

PrepareInit ==
  /\ MoreIdle
  /\ impl \in Impls
  /\ cryptoSecret \in Keys
  /\ file = <<>>
  /\ hist = <<>>
  /\ nops = 0
  /\ TasksIdle
  /\ QueryIdle
  /\ BatchIdle
  /\ CryptoIdle
  /\ ValidateIdle
  /\ config \in Configs
  /\ prepared = NotPrepared

PrepareNext == PrepareFile \/ PrepareSyncFile

SpecPrepare == PrepareInit /\ [][PrepareNext]_vars

\* everything but the calls modelled on their own
RestInit ==
  /\ impl = "ts"
  /\ cryptoSecret = "k1"
  /\ file = <<>>
  /\ hist = <<>>
  /\ nops = 0
  /\ TasksIdle
  /\ QueryIdle
  /\ CallsIdle

CassandraNext == CassandraQuery \/ CassandraCallback \/ CassandraCancel

SpecCassandra == RestInit /\ [][CassandraNext]_vars

UtilNext == VersionCompare \/ WrapIdentifier

SpecUtil == RestInit /\ [][UtilNext]_vars

SessionInit ==
  /\ impl = "ts"
  /\ cryptoSecret = "k1"
  /\ file = <<>>
  /\ hist = <<>>
  /\ nops = 0
  /\ TasksIdle
  /\ QueryIdle
  /\ BatchIdle /\ CryptoIdle /\ ValidateIdle /\ PrepareIdle
  /\ cass = CassIdle
  /\ util = UtilIdle
  /\ tunnel = TunnelIdle
  /\ \E ssh \in BOOLEAN : session = [SessionIdle EXCEPT !.ssh = ssh]

SessionNext == Db \/ CreateConnection \/ Connect \/ End

SpecSession == SessionInit /\ [][SessionNext]_vars

TunnelInit ==
  /\ impl = "ts"
  /\ cryptoSecret = "k1"
  /\ file = <<>>
  /\ hist = <<>>
  /\ nops = 0
  /\ TasksIdle
  /\ QueryIdle
  /\ BatchIdle /\ CryptoIdle /\ ValidateIdle /\ PrepareIdle
  /\ cass = CassIdle
  /\ util = UtilIdle
  /\ session = SessionIdle
  /\ tunnel = [TunnelIdle EXCEPT !.listening = TRUE]

TunnelNext ==
  \/ \E i \in Sockets :
       \/ TunnelAccept(i)
       \/ TunnelClientConnect(i)
       \/ TunnelConnectFails(i)
       \/ TunnelClientReady(i)
       \/ TunnelClientError(i)
       \/ TunnelForwardFails(i)
       \/ TunnelForwarded(i)
       \/ TunnelSocketError(i)
       \/ TunnelPeerEnds(i)
  \/ TunnelClosed

SpecTunnel == TunnelInit /\ [][TunnelNext]_vars


\* the PostgreSQL handles, each executed any number of times
ReexecuteNext ==
  \/ \E h \in Handles :
       \/ PgExecute(h)
       \/ PgPoolConnect(h)
       \/ PgPidResult(h)
       \/ PgQueryResult(h)
       \/ PgCancelableWait(h)
       \/ PgExecuteAgain(h)
       \/ PgPidResultAgain(h)
       \/ PgCancel(h)
       \/ PgCancelConnect(h)
       \/ PgCancelBackend(h)
       \/ PgCancelResult(h)
  \/ \E c \in Pids :
       \/ PgBackendFinish(c)
       \/ PgLateResult(c)

SpecReexecute == QueryInit /\ [][ReexecuteNext]_vars


\* one handle of each client
HandlesNext ==
  \/ PgExecute(1)
  \/ PgPoolConnect(1)
  \/ PgPidResult(1)
  \/ PgQueryResult(1)
  \/ PgCancelableWait(1)
  \/ PgCancel(1)
  \/ PgCancelConnect(1)
  \/ PgCancelBackend(1)
  \/ PgCancelResult(1)
  \/ \E c \in Pids :
       \/ PgBackendFinish(c)
       \/ PgLateResult(c)
  \/ SqliteExecute
  \/ SqliteOpened
  \/ SqliteResult
  \/ SqliteCancel
  \/ MssqlExecute
  \/ MssqlConnected
  \/ MssqlResult
  \/ MssqlCancel

SpecHandles == QueryInit /\ [][HandlesNext]_vars

(***************************************************************************)
(* Properties of the registry.                                             *)
(***************************************************************************)
Last == hist[Len(hist)]

IsAddCall(c) ==
  (c.op = "add" \/ (c.op = "addOrUpdate" /\ c.arg.id = "")) /\ c.ret.kind = "value"

IsUpdateCall(c) ==
  (c.op = "update" \/ (c.op = "addOrUpdate" /\ c.arg.id # "")) /\ c.ret.kind = "value"

\* calls j and j + 1 were add(d, k) and decryptSecrects of what it returned,
\* in servers.ts, whose crypto module is part of the source
AddThenDecrypt(j) ==
  /\ impl = "ts"
  /\ IsAddCall(hist[j])
  /\ hist[j + 1].op = "decryptSecrects"
  /\ hist[j + 1].arg = hist[j].ret.val

EqualExceptIdAndEncrypted(r, d) ==
  /\ r.name = d.name
  /\ r.password = d.password
  /\ r.ssh = d.ssh
  /\ r.encrypted = "false"

C2_AddOrUpdateThenRemove ==
  ( /\ Len(hist) = 2
    /\ hist[1].op = "addOrUpdate" /\ hist[1].arg.id # ""
    /\ findIndex(hist[1].before, hist[1].arg.id) = -1
    /\ hist[1].ret.kind = "value"
    /\ hist[2].op = "removeById" /\ hist[2].arg.id = hist[1].arg.id )
  => file = hist[1].before

\* C3: removeById of an id that matches no stored descriptor raises no
\* error and leaves the persisted list unchanged.
C3_RemoveAbsentIsNoOp ==
  ( /\ Len(hist) >= 1
    /\ Last.op = "removeById"
    /\ findIndex(Last.before, Last.arg.id) = -1 )
  => (Last.ret.kind # "throw" /\ file = Last.before)

\* C4: no two descriptors of the persisted registry have the same id.
C4_UniqueIds ==
  \A a \in 1..Len(file), b \in 1..Len(file) :
    (a # b /\ file[a].id # "") => file[a].id # file[b].id

LastIndex == findIndex(Last.before, Last.arg.id)

\* C5: update(d, k) with d.password identical to the persisted password of
\* d.id leaves that persisted password unchanged.
C5_SamePasswordKeepsCiphertext ==
  ( /\ Len(hist) >= 1
    /\ IsUpdateCall(Last)
    /\ LastIndex # -1
    /\ Truthy(Last.arg.password)
    /\ Last.arg.password = Last.before[LastIndex + 1].password )
  => file[LastIndex + 1].password = Last.before[LastIndex + 1].password

\* what lines 94-100 of servers.ts and 76-86 of servers.js alone leave in password
passwordBranchOutcomes(i, server, secret, hasOld, old) ==
  IF i = "ts" THEN {encryptSecrectsTs(server, secret, hasOld, old).password}
  ELSE {passwordBranchJs(server, secret, hasOld, old, iv) : iv \in IVs}

\* C6: update(d, k) with d.ssh.password identical to the persisted
\* ssh.password of d.id leaves the persisted ssh.password unchanged, and
\* the persisted password is what the password branch alone produces.
C6_SameSshPasswordKeepsCiphertext ==
  ( /\ Len(hist) >= 1
    /\ IsUpdateCall(Last)
    /\ LastIndex # -1
    /\ Last.arg.ssh.present /\ Truthy(Last.arg.ssh.password)
    /\ Last.arg.ssh.password = Last.before[LastIndex + 1].ssh.password )
  => /\ file[LastIndex + 1].ssh.password = Last.before[LastIndex + 1].ssh.password
     /\ file[LastIndex + 1].password \in
          passwordBranchOutcomes(impl, sanitize(Last.arg), cryptoSecret, TRUE,
                                 Last.before[LastIndex + 1])

(***************************************************************************)
(* Properties of concurrent registry calls.                                *)
(***************************************************************************)
\* C7: once the concurrently started calls have all completed, the file
\* holds what running them one after another in some order leaves (and
\* with it every add that completed).
C7_Serialized ==
  AllDone => [servers |-> file, settings |-> settings] \in SerialOutcomes

(***************************************************************************)
(* Properties of the query handles.                                        *)
(***************************************************************************)
\* C8: on handles that share one pool, a handle's cancel() never cancels a
\* query other than the handle's own: whatever pg_cancel_backend(pid) finds
\* running on the backend with that pid was sent by the handle that issued
\* the cancel.
C8_CancelsOwnQueryOnly ==
  \A s \in signals : s[2] \in {0, s[1]}

\* C9: cancel() called before execute() registered its target (pid,
\* queryConnection, queryRequest) rejects with 'Query not ready to be
\* canceled' and does nothing else: nothing is sent to the driver and the
\* state that execute() runs on is as it was.
C9_CancelBeforeReady ==
  [][/\ \A h \in Handles :
          (pg'[h].ncancel # pg[h].ncancel /\ pg[h].pid = 0)
            => /\ pg' = [pg EXCEPT ![h] = notReady(pg[h])]
               /\ UNCHANGED <<conns, signals>>
     /\ (sqlite'.ncancel # sqlite.ncancel /\ ~sqlite.target)
          => sqlite' = notReady(sqlite)
     /\ (mssql'.ncancel # mssql.ncancel /\ ~mssql.target)
          => mssql' = notReady(mssql)]_vars

EarlyCancelThenData(handle) ==
  /\ handle.ncancel = 1
  /\ handle.cret = "Query not ready to be canceled"
  /\ handle.pc = "settled"
  /\ handle.outcome = "data"

\* C9 happens: each client's handle rejected an early cancel() and its
\* execute() went on to resolve with rows
C9_Witness ==
  /\ EarlyCancelThenData(pg[1])
  /\ EarlyCancelThenData(sqlite) /\ sqlite.driverCancels = 0
  /\ EarlyCancelThenData(mssql) /\ mssql.driverCancels = 0

\* C10: once a cancel() completed successfully while the handle's execute()
\* was pending, execute() does not settle otherwise than rejected with
\* sqlectronError = 'CANCELED_BY_USER'.
C10_CanceledIsTagged ==
  \A h \in Handles :
    (pg[h].okPending /\ pg[h].pc = "settled") => pg[h].outcome = CANCELED_BY_USER

(***************************************************************************)
(* Properties of executeQuery.                                             *)
(***************************************************************************)
\* the statements of a batch, and those of them that return a record set
count(b) == Len(SelectSeq(b, IsStatement))

queries(b) == Len(SelectSeq(b, IsQuery))

\* the rows the statements of the batch changed
changed(b) == Sum([j \in 1..Len(b) |-> rowsAffectedOf(b[j], FALSE)])

SingleNonSelect ==
  /\ Len(batch) = 1
  /\ IsStatement(batch[1]) /\ ~IsQuery(batch[1]) /\ ~batch[1].fails

C13_FirstFailureAborts ==
  (client = "sqlite" /\ outcome.kind = "error") =>
    /\ outcome.errAt = firstFailure(identifyCommandsSqlite(batch))
    /\ dbRan <= outcome.errAt

\* C14: a result whose statement the identifier reported as UNKNOWN and
\* that has rows is normalized to command 'SELECT'.
C14_UnknownWithRowsIsSelect ==
  outcome.kind = "results" =>
    LET commands == IF client = "sqlite" THEN identifyCommandsSqlite(batch)
                    ELSE identifyCommands(batch)
    IN \A idx \in 1..Len(outcome.results) :
         ( /\ commandAt(commands, idx) = "UNKNOWN"
           /\ outcome.results[idx].rows > 0 )
           => outcome.results[idx].command = "SELECT"

\* a text every surrogate of which is paired
WellFormed(t) == \A i \in 1..Len(t) : t[i] # "hs"

Decrypted == dec # NotCalled

\* C15 as stated: for every plaintext p and every non-empty secret s,
\* decrypt(encrypt(p, s), s) = p.
C15_AsStated ==
  (Decrypted /\ secret2 = cryptoSecret) => dec = Value(plaintext)

\* C15: for every plaintext p without an unpaired surrogate and every
\* non-empty secret s, decrypt(encrypt(p, s), s) = p.
C15_RoundTrip ==
  (Decrypted /\ secret2 = cryptoSecret /\ WellFormed(plaintext)) => dec = Value(plaintext)

C15_Witness ==
  /\ Decrypted
  /\ secret2 = cryptoSecret
  /\ plaintext = <<"a", "e'", "a">>
  /\ crypted.val # toHex(utf8Encode(plaintext))
  /\ dec = Value(plaintext)

\* C16: decrypt(c, s2) of a ciphertext c made under a secret s1 # s2 ends
\* in an error and never returns a value.
C16_WrongSecretThrows ==
  (Decrypted /\ secret2 # cryptoSecret) => dec.kind = "throw"

\* C17: decryptSecrects(server, k) on a descriptor whose encrypted flag is
\* false or unset returns a descriptor equal to its input, password and
\* ssh.password untouched.
C17_DecryptUnencryptedIsNoOp ==
  \A j \in 1..Len(hist) :
    (hist[j].op = "decryptSecrects" /\ hist[j].arg.encrypted # "true")
      => hist[j].ret = Value(hist[j].arg)

\* the address of a descriptor as C18 wants it: host and port and no socket
\* path, or a socket path and neither host nor port
AddressWellFormed(obj) ==
  \/ ToBoolean(obj.host) /\ ToBoolean(obj.port) /\ ~ToBoolean(obj.socketPath)
  \/ ToBoolean(obj.socketPath) /\ ~ToBoolean(obj.host) /\ ~ToBoolean(obj.port)

\* C18: serverAddressValidator accepts a descriptor exactly when host and
\* port are both set and socketPath is not, or socketPath is set and neither
\* host nor port is.
C18_AddressExactlyOne ==
  addrError # "not called" => (addrError = NoError <=> AddressWellFormed(form))

Registered(cl) == \E dbClient \in CLIENTS : dbClient.key = cl

\* C19: validate rejects, with a clientValidator error, every descriptor
\* whose client is defined but is no key of CLIENTS; add and update never
\* persist a descriptor with an unregistered client.
C19_UnregisteredClientRejected ==
  /\ (verdict # NotValidated /\ form.client # "undefined" /\ ~Registered(form.client))
       => "clientValidator" \in verdict
  /\ \A j \in 1..Len(persisted) : Registered(persisted[j].client)

\* the written server keeps and completes the server of the file
Sanitized(before, after) ==
  /\ after.srv.id # ""
  /\ after.ssl # "undefined"
  /\ before.srv.id # "" => after.srv.id = before.srv.id
  /\ before.srv.encrypted = "undefined" =>
       /\ after.srv.encrypted = "true"
       /\ Truthy(before.srv.password) =>
            /\ after.srv.password.layers # <<>>
            /\ (IF impl = "ts" THEN decrypt(after.srv.password, cryptoSecret)
                ELSE decryptString(after.srv.password)) = before.srv.password

\* C20: after prepare (async or sync) on any configuration file, every
\* server of the written file has an id and a defined ssl, keeps the id it
\* had, and a server whose secrecy flag was unset has the flag set and its
\* password stored as ciphertext that decrypts to the original.
C20_PrepareSanitizes ==
  (prepared # NotPrepared /\ cryptoSecret # "") =>
    /\ prepared.kind = "written"
    /\ Len(prepared.servers) = Len(config.servers)
    /\ \A j \in 1..Len(config.servers) : Sanitized(config.servers[j], prepared.servers[j])

\* C21: the Cassandra adapter's query(text) returns a handle with execute
\* and cancel without running the statement, and cancel() on it leaves the
\* database alone and returns a 'not supported' error.
C21_CassandraQueryHandle ==
  cass.pc # "idle" =>
    /\ {"execute", "cancel"} \subseteq cass.returned
    /\ cass.ran = 0
    /\ cass.cancelRet \in {"not called", "not supported"}

\* the positions both versions have
Shared(a, b) == 1..Min({Len(a), Len(b)})

IsNumber(val) == val \in {"1", "8", "12"}

IntOf(val) == IF val = "1" THEN 1 ELSE IF val = "8" THEN 8 ELSE 12

Compared == util.op = "versionCompare"

HasArraySuffix(name) ==
  /\ Len(name) >= 3
  /\ name[Len(name) - 2] = "["
  /\ name[Len(name) - 1] = "1"
  /\ name[Len(name)] = "]"

\* the name between the dialect's quote characters, each embedded one doubled
Quoted(dialect, name) ==
  IF dialect = "sqlserver"
    THEN <<"[">> \o replace(replace(name, "[", <<"[", "[">>), "]", <<"]", "]">>) \o <<"]">>
    ELSE <<"\"">> \o replace(name, "\"", <<"\"", "\"">>) \o <<"\"">>

RECURSIVE Wrapped(_, _)
Wrapped(dialect, name) ==
  IF name = <<"*">> THEN name
  ELSE IF HasArraySuffix(name)
    THEN Wrapped(dialect, SubSeq(name, 1, Len(name) - 3))
           \o SubSeq(name, Len(name) - 2, Len(name))
  ELSE Quoted(dialect, name)

\* C23: for every adapter wrapIdentifier('*') = '*'; any other name comes
\* back between the dialect's quote characters with every embedded quote
\* character doubled; a name base + '[n]' yields wrapIdentifier(base)
\* followed by the unquoted '[n]'.
C23_WrapIdentifier ==
  util.op = "wrapIdentifier" => util.ret = Wrapped(util.a[1], util.b)

\* C24: within one session, for any sequence of db and createConnection
\* calls, db(name) returns undefined until createConnection(name) has been
\* called and afterwards the connection it created; every
\* createConnection(name) returns that same connection, and at most one
\* connection is constructed per name.
C24_OneConnectionPerName ==
  session.ends = 0 =>
    /\ session.last.op = "db" =>
         session.last.ret = (IF session.first[session.last.name] = 0 THEN undefined
                             ELSE session.first[session.last.name])
    /\ session.last.op = "createConnection" =>
         /\ session.last.ret \in 1..session.made
         /\ session.last.ret = session.first[session.last.name]
    /\ \A n \in DbNames : session.built[n] <= 1

\* C25: end() calls disconnect on every connection the session has created
\* and, when a tunnel handle is present, closes it exactly once and clears
\* the handle, so that a second end() does not close the tunnel again.
C25_EndClosesOnce ==
  /\ session.last.op = "end" =>
       /\ \A c \in 1..session.made : session.disconnects[c] >= 1
       /\ session.sshTunnel = 0
  /\ \A t \in 1..MaxTunnels : session.closes[t] <= 1
  /\ \A t \in 1..session.tunnels :
       (session.ends > 0 /\ session.sshTunnel # t) => session.closes[t] = 1

C25_Witness ==
  /\ session.last.op = "end"
  /\ session.ends = 2
  /\ session.made = 2
  /\ session.tunnels = 1
  /\ session.closes[1] = 1

\* C26: every tunnel error (an error on an inbound socket, an error of an
\* SSH client, a failed SSH connect, a failed forwardOut) results in an
\* 'error' event on the tunnel server and in the listener being closed;
\* once the server has closed, all tracked inbound sockets are ended.
C26_ErrorClosesListener ==
  tunnel.errors # {} =>
    /\ ~tunnel.listening
    /\ tunnel.closed => \A i \in tracked(tunnel) : tunnel.socks[i].ended

\* the statements of the batch that produce a result, in source order: on
\* SQL Server those that return a record set, elsewhere every statement
Producing(b) ==
  IF client = "sqlserver" THEN SelectSeq(b, IsQuery) ELSE SelectSeq(b, IsStatement)

\* C27: the results of one executeQuery call are in source order and
\* positionally matched: the k-th result holds the rows of the k-th
\* statement that produces one, and its command is the type the identifier
\* gave to that statement.
C27_ResultsInSourceOrder ==
  (/\ outcome.kind = "results"
   /\ ~identifyThrows(batch, client # "sqlite")
   /\ Producing(batch) # <<>>) =>
    /\ Len(outcome.results) = Len(Producing(batch))
    /\ \A k \in 1..Len(outcome.results) :
         /\ outcome.results[k].rows = Producing(batch)[k].rows
         /\ outcome.results[k].command = Producing(batch)[k].type

\* C28: add, update and decryptSecrects work on a copy: after the call the
\* descriptor object passed in by the caller is unchanged in every field,
\* the nested ssh.password included.
C28_CallerDescriptorUnchanged ==
  \A j \in 1..Len(hist) :
    hist[j].op \in {"add", "update", "decryptSecrects"}
      => hist[j].passed = hist[j].arg

\* the query of the handle's settled execute() is still running, or its
\* answer is still on its way: the call settled without it
SettledEarly(h) ==
  \E c \in Pids : conns[c].job = h \/ conns[c].resp.h = h

\* C29: for any sequence of execute() and cancel() calls on one PostgreSQL
\* query handle, every execute() that resolves yields the list of results,
\* never undefined, and an execute() started after an earlier one has
\* settled runs the query again: it does not settle from the cancellation
\* state the earlier call left behind.
C29_ExecuteAgainRunsQuery ==
  \A h \in Handles :
    pg[h].pc = "settled" =>
      /\ pg[h].outcome # "undefined"
      /\ pg[h].again > 0 => ~SettledEarly(h)

====
